---- MODULE Spec2Model ----
(***************************************************************************)
(* HAlign-4: reference-guided alignment.  One module, three specifications:*)
(*   Spec       the stream orchestrator RefAligner::alignQueryToRef and    *)
(*              the merge that follows it (per-worker SAM writers, OpenMP  *)
(*              parallel loop over each chunk);                            *)
(*   SpecAlign  the three aligner entry points as pure functions;          *)
(*   SpecFasta  the viral projection cigar_to_fasta as a pure function.    *)
(***************************************************************************)
EXTENDS Integers, Sequences, FiniteSets, TLC

\* ------------------------------------------------------------------ bounds
NThreads == 2
NQueries == 3
BatchSize == 2
MaxSeqLen == 2
MaxAnchors == 1
MaxCigarLen == 3
kmer_size == 1
sketch_size == 2
window_size == 2
MaxUnits == 2
MaxUnitLen == 2
MaxHits == 3
MaxK == 2
MaxConsidered == 4
MaxRefs == 3
MaxMinLen == 4
MaxTasks == 2
\* Sequences of a batch of the viral driver per thread (100 in main.cpp).
BatchPerThread == 1

\* ------------------------------------------------- constants of the program
kOpM == 0
kOpI == 1
kOpD == 2
kOpN == 3
kOpS == 4
kOpH == 5
kOpP == 6
kOpEq == 7
kOpX == 8
kOpMask == 15
wfa_mismatch == 3
wfa_gap_opening == 4
wfa_gap_extension == 1
ksw_match == 5
ksw_mismatch == 4
gap_open == 6
gap_extend == 2
band_margin == 200
viral_mismatch == 4
viral_gap_opening == 6
viral_gap_extension == 2

\* ----------------------------------------------------------------- helpers
Min(a, b) == IF a < b THEN a ELSE b

Max(a, b) == IF a > b THEN a ELSE b

Range(s) == {s[i] : i \in 1..Len(s)}

RECURSIVE SeqsUpTo(_, _)
SeqsUpTo(S, n) ==
    IF n = 0 THEN {<<>>}
    ELSE LET shorter == SeqsUpTo(S, n - 1)
         IN  shorter \cup {Append(s, x) : s \in shorter, x \in S}

Alphabet == {"A", "C"}

\* ------------------------------------------------------------ cigar (main.cpp)
\* A CigarUnit packs (len << 4) | op_code.
cigarToInt(op, len) == len * (2 ^ 4) + (op % (kOpMask + 1))

unitOp(u) == u % (kOpMask + 1)

unitLen(u) == u \div (2 ^ 4)

opToChar(op) ==
    CASE op = kOpM -> "M" [] op = kOpI -> "I" [] op = kOpD -> "D"
      [] op = kOpN -> "N" [] op = kOpS -> "S" [] op = kOpH -> "H"
      [] op = kOpP -> "P" [] op = kOpEq -> "=" [] op = kOpX -> "X"
      [] OTHER -> "?"

charToOp(c) ==
    CASE c = "M" -> kOpM [] c = "I" -> kOpI [] c = "D" -> kOpD
      [] c = "N" -> kOpN [] c = "S" -> kOpS [] c = "H" -> kOpH
      [] c = "P" -> kOpP [] c = "=" -> kOpEq [] c = "X" -> kOpX

\* intToCigar: the (operation character, length) a unit decodes to.
intToCigar(u) == <<opToChar(unitOp(u)), unitLen(u)>>

hasInsertion(cigar) == \E i \in 1..Len(cigar) : unitOp(cigar[i]) = kOpI

\* cigarToString: "<len><op>" per unit, kept as a sequence of tokens.
cigarToString(cigar) ==
    [i \in 1..Len(cigar) |-> <<intToCigar(cigar[i])[2], intToCigar(cigar[i])[1]>>]

RECURSIVE getRefLength(_)
getRefLength(cigar) ==
    IF cigar = <<>> THEN 0
    ELSE LET op == unitOp(Head(cigar))
         IN  (IF op \in {kOpM, kOpD, kOpN, kOpEq, kOpX}
              THEN unitLen(Head(cigar)) ELSE 0) + getRefLength(Tail(cigar))

RECURSIVE getQueryLength(_)
getQueryLength(cigar) ==
    IF cigar = <<>> THEN 0
    ELSE LET op == unitOp(Head(cigar))
         IN  (IF op \in {kOpM, kOpI, kOpS, kOpEq, kOpX}
              THEN unitLen(Head(cigar)) ELSE 0) + getQueryLength(Tail(cigar))

\* ------------------------------------------------------- mash (mash.cpp)
nt4(c) ==
    CASE c = "A" -> 0 [] c = "C" -> 1 [] c = "G" -> 2 [] c = "T" -> 3
      [] OTHER -> 4

RECURSIVE kmerCode(_, _, _)
kmerCode(seq, i, k) ==
    IF k = 0 THEN 0 ELSE 4 * kmerCode(seq, i, k - 1) + nt4(seq[i + k - 1])

\* MurmurHash3 of the 2-bit code, reduced to a scramble of the small codes.
murmur64(code) == (code * 7 + 3) % 16

sketchFromSequence(seq, k, size) ==
    IF k = 0 \/ size = 0 \/ Len(seq) < k THEN {}
    ELSE LET valid  == {i \in 1..(Len(seq) - k + 1) :
                           \A j \in i..(i + k - 1) : nt4(seq[j]) < 4}
             hashes == {murmur64(kmerCode(seq, i, k)) : i \in valid}
         IN  {h \in hashes : Cardinality({g \in hashes : g < h}) < size}

\* jaccard as the fraction <<numerator, denominator>>.
jaccard(a, b) ==
    IF a = {} /\ b = {} THEN <<1, 1>>
    ELSE IF a = {} \/ b = {} THEN <<0, 1>>
    ELSE <<Cardinality(a \cap b), Cardinality(a \cup b)>>

\* A comparison that also replaces the best on equality.
fracGreaterOrEqual(x, y) == x[1] * y[2] >= y[1] * x[2]

\* j > best_j on the fractions.
fracGreater(x, y) == x[1] * y[2] > y[1] * x[2]

\* The linear scan of alignOneQueryToRef: best_j = -1.0, best_r = 0, strict >.
RECURSIVE scanBest(_, _, _, _, _)
scanBest(qsk, sketches, r, best_j, best_r) ==
    IF r > Len(sketches) THEN best_r
    ELSE LET j == jaccard(qsk, sketches[r])
         IN  IF fracGreater(j, best_j)
             THEN scanBest(qsk, sketches, r + 1, j, r)
             ELSE scanBest(qsk, sketches, r + 1, best_j, best_r)

bestRef(qsk, sketches) == scanBest(qsk, sketches, 1, <<-1, 1>>, 1)

\* ------------------------------------------- minimizers (RingMinQueue etc.)
\* splitmix64 reduced to a scramble of the small codes; the low 8 bits are the
\* ones extractMinimizer shifts away.
splitmix64(x) == ((x * 5 + 2) % 7) * (2 ^ 8) + (x % (2 ^ 8))

NoCand == [h |-> 0, pos |-> 0]

\* RingMinQueue(capacity): buf_ value-initialised, head_ = size_ = 0.  oob
\* records that an element outside buf_ was accessed.
RingMinQueue(capacity) ==
    [buf |-> [i \in 1..capacity |-> NoCand], cap |-> capacity,
     head |-> 0, size |-> 0, oob |-> FALSE]

idx(q, off) ==
    LET i == q.head + off IN IF i >= q.cap THEN i - q.cap ELSE i

clear(q) == [q EXCEPT !.head = 0, !.size = 0]

\* The loop of push: pop_back while back().h >= h.
RECURSIVE popBackWhile(_, _)
popBackWhile(q, h) ==
    IF q.size = 0 THEN q
    ELSE IF idx(q, q.size - 1) >= q.cap THEN [q EXCEPT !.oob = TRUE]
    ELSE IF q.buf[idx(q, q.size - 1) + 1].h >= h
         THEN popBackWhile([q EXCEPT !.size = @ - 1], h)
    ELSE q

\* RingMinQueue::push: buf_[idx(size_)] = c; ++size_ (no test of size_
\* against cap_).
push(q, h, pos) ==
    LET p == popBackWhile(q, h)
        i == idx(p, p.size)
    IN  IF p.oob \/ i >= p.cap THEN [p EXCEPT !.oob = TRUE]
        ELSE [p EXCEPT !.buf[i + 1] = [h |-> h, pos |-> pos], !.size = @ + 1]

RECURSIVE popExpired(_, _)
popExpired(q, win_start) ==
    IF q.size # 0 /\ q.buf[q.head + 1].pos < win_start
    THEN popExpired([q EXCEPT !.head = idx(q, 1), !.size = @ - 1], win_start)
    ELSE q

minHash(q) == q.buf[q.head + 1].h

minPos(q) == q.buf[q.head + 1].pos

\* The locals of extractMinimizer before its loop; cur is the candidate the
\* last iteration took from the queue front, has_cur whether it took one.
minimizerStart(win) ==
    [fwd |-> 0, rev |-> 0, valid |-> 0, q |-> RingMinQueue(win),
     last_out |-> NoCand, has_last |-> FALSE, out |-> <<>>,
     cur |-> NoCand, has_cur |-> FALSE]

\* One iteration of the loop of extractMinimizer, for seq[i] (i from 0).
minimizerStep(st, seq, i, k, win, non_canonical) ==
    LET c    == nt4(seq[i + 1])
        fwd  == (st.fwd * 4 + c) % (4 ^ k)
        rev  == (st.rev \div 4) + (3 - c) * (4 ^ (k - 1))
        v    == IF st.valid < k THEN st.valid + 1 ELSE st.valid
        pos  == i + 1 - k
        code == IF non_canonical THEN fwd ELSE Min(fwd, rev)
        h56  == splitmix64(code) \div (2 ^ 8)
        q1   == push(st.q, h56, pos)
        q2   == popExpired(q1, pos + 1 - win)
        cur  == [h |-> minHash(q2), pos |-> minPos(q2)]
        s0   == [st EXCEPT !.has_cur = FALSE]
    IN  IF c >= 4
        THEN [s0 EXCEPT !.fwd = 0, !.rev = 0, !.valid = 0, !.q = clear(@),
                        !.has_last = FALSE]
        ELSE IF v < k
        THEN [s0 EXCEPT !.fwd = fwd, !.rev = rev, !.valid = v]
        ELSE IF q1.oob
        THEN [s0 EXCEPT !.fwd = fwd, !.rev = rev, !.valid = v, !.q = q1]
        ELSE IF pos + 1 < win
        THEN [s0 EXCEPT !.fwd = fwd, !.rev = rev, !.valid = v, !.q = q1]
        ELSE IF q2.size = 0
        THEN [s0 EXCEPT !.fwd = fwd, !.rev = rev, !.valid = v, !.q = q2]
        ELSE IF ~st.has_last \/ cur # st.last_out
        THEN [s0 EXCEPT !.fwd = fwd, !.rev = rev, !.valid = v, !.q = q2,
                        !.cur = cur, !.has_cur = TRUE,
                        !.out = Append(@, cur),
                        !.last_out = cur, !.has_last = TRUE]
        ELSE [s0 EXCEPT !.fwd = fwd, !.rev = rev, !.valid = v, !.q = q2,
                        !.cur = cur, !.has_cur = TRUE]

\* win = min(w, total_kmer) of extractMinimizer.
minimizerWindow(n, k, w) == Min(w, n - k + 1)

RECURSIVE minimizerLoop(_, _, _, _, _, _)
minimizerLoop(st, seq, i, k, win, non_canonical) ==
    IF i >= Len(seq) \/ st.q.oob THEN st
    ELSE minimizerLoop(minimizerStep(st, seq, i, k, win, non_canonical),
                       seq, i + 1, k, win, non_canonical)

\* extractMinimizer: the hits <<hash, pos>> in emission order.
extractMinimizer(seq, k, w, non_canonical) ==
    IF k = 0 \/ w = 0 \/ Len(seq) < k \/ k > 31 \/ w >= 256 THEN <<>>
    ELSE LET win == minimizerWindow(Len(seq), k, w)
         IN  minimizerLoop(minimizerStart(win), seq, 0, k, win,
                           non_canonical).out

\* extractMinimizerHash: the hash values of the hits.
extractMinimizerHash(seq, k, w, non_canonical) ==
    LET hits == extractMinimizer(seq, k, w, non_canonical)
    IN  [j \in 1..Len(hits) |-> hits[j].h]

\* --------------------------------------------- WFA2 (library) and its facade
\* Every global alignment of rl reference and ql query characters, one
\* operation per column.
RECURSIVE alignments(_, _)
alignments(rl, ql) ==
    IF rl = 0 /\ ql = 0 THEN {<<>>}
    ELSE (IF rl > 0 /\ ql > 0
          THEN {<<"M">> \o a : a \in alignments(rl - 1, ql - 1)} ELSE {})
         \cup (IF ql > 0
               THEN {<<"I">> \o a : a \in alignments(rl, ql - 1)} ELSE {})
         \cup (IF rl > 0
               THEN {<<"D">> \o a : a \in alignments(rl - 1, ql)} ELSE {})

\* Gap-affine penalty of an alignment whose next columns are i (ref), j (query).
RECURSIVE affinePenalty(_, _, _, _, _, _, _)
affinePenalty(a, ref, query, i, j, prev, pen) ==
    IF a = <<>> THEN 0
    ELSE LET op == Head(a)
         IN  CASE op = "M" ->
                    (IF ref[i] = query[j] THEN 0 ELSE pen.mismatch)
                    + affinePenalty(Tail(a), ref, query, i + 1, j + 1, op, pen)
               [] op = "I" ->
                    (IF prev = op THEN 0 ELSE pen.gap_opening) + pen.gap_extension
                    + affinePenalty(Tail(a), ref, query, i, j + 1, op, pen)
               [] op = "D" ->
                    (IF prev = op THEN 0 ELSE pen.gap_opening) + pen.gap_extension
                    + affinePenalty(Tail(a), ref, query, i + 1, j, op, pen)

\* wavefront_align: the end-to-end alignments of least penalty (ties are left
\* to the library).
wavefront_align(ref, query, pen) ==
    LET all  == alignments(Len(ref), Len(query))
        cost(a) == affinePenalty(a, ref, query, 1, 1, "", pen)
    IN  {a \in all : \A b \in all : cost(a) <= cost(b)}

leadingRun(a) ==
    CHOOSE n \in 1..Len(a) :
        /\ \A k \in 1..n : a[k] = a[1]
        /\ n = Len(a) \/ a[n + 1] # a[1]

\* cigar_get_CIGAR: run-length units in BAM packing.
RECURSIVE cigar_get_CIGAR(_)
cigar_get_CIGAR(a) ==
    IF a = <<>> THEN <<>>
    ELSE LET n == leadingRun(a)
         IN  <<cigarToInt(charToOp(a[1]), n)>>
             \o cigar_get_CIGAR(SubSeq(a, n + 1, Len(a)))

globalAlignWFA2(ref, query) ==
    LET affine_penalties ==
            [mismatch |-> wfa_mismatch, gap_opening |-> wfa_gap_opening,
             gap_extension |-> wfa_gap_extension]
    IN  {cigar_get_CIGAR(a) : a \in wavefront_align(ref, query, affine_penalties)}

\* ------------------------------------------- KSW2 (library) and its facades
\* An append that never merges.
appendNoMerge(result, cigar_to_add) == result \o cigar_to_add

\* appendCigar: append, summing the lengths when the operation at the junction
\* is the same on both sides.
appendCigar(result, cigar_to_add) ==
    IF cigar_to_add = <<>> THEN result
    ELSE IF result = <<>> THEN cigar_to_add
    ELSE LET last == result[Len(result)]
             head == cigar_to_add[1]
         IN  IF unitOp(last) = unitOp(head)
             THEN SubSeq(result, 1, Len(result) - 1)
                  \o <<cigarToInt(unitOp(last), unitLen(last) + unitLen(head))>>
                  \o Tail(cigar_to_add)
             ELSE result \o cigar_to_add

\* auto_band: -1 (no band) when the lengths differ by more than half of the
\* longer one, else margin + indel_rate * (qlen + tlen / 2) with indel_rate 0.1.
auto_band(qlen, tlen) ==
    IF 2 * (Max(qlen, tlen) - Min(qlen, tlen)) > Max(qlen, tlen)
    THEN -1
    ELSE band_margin + ((qlen + tlen \div 2) \div 10)

KSW2AlignConfig ==
    [gap_open |-> gap_open, gap_extend |-> gap_extend, end_bonus |-> 0,
     zdrop |-> -1, band_width |-> -1, flag |-> {"GENERIC_SC", "RIGHT"}]

\* Score of an alignment under dna5_simd_mat and gap cost open + n * extend.
RECURSIVE kswScore(_, _, _, _, _, _, _)
kswScore(a, ref, query, i, j, prev, cfg) ==
    IF a = <<>> THEN 0
    ELSE LET op == Head(a)
         IN  CASE op = "M" ->
                    (IF ref[i] = query[j] THEN ksw_match ELSE 0 - ksw_mismatch)
                    + kswScore(Tail(a), ref, query, i + 1, j + 1, op, cfg)
               [] op = "I" ->
                    0 - (IF prev = op THEN 0 ELSE cfg.gap_open) - cfg.gap_extend
                    + kswScore(Tail(a), ref, query, i, j + 1, op, cfg)
               [] op = "D" ->
                    0 - (IF prev = op THEN 0 ELSE cfg.gap_open) - cfg.gap_extend
                    + kswScore(Tail(a), ref, query, i + 1, j, op, cfg)

\* The largest distance from the main diagonal an alignment reaches.
RECURSIVE maxOffDiagonal(_, _)
maxOffDiagonal(a, d) ==
    IF a = <<>> THEN Max(d, 0 - d)
    ELSE LET nd == CASE Head(a) = "M" -> d
                     [] Head(a) = "I" -> d + 1
                     [] Head(a) = "D" -> d - 1
         IN  Max(Max(d, 0 - d), maxOffDiagonal(Tail(a), nd))

\* ksw_extz2_sse without z-drop: the best-scoring global alignments inside the
\* band, as run-length units; backtracking starts at the last cell of both
\* sequences, so when the band admits no path the path is forced and any
\* global alignment can come out.
ksw_extz2_sse(query, ref, cfg) ==
    LET all    == alignments(Len(ref), Len(query))
        inBand == IF cfg.band_width < 0 THEN all
                  ELSE {a \in all : maxOffDiagonal(a, 0) <= cfg.band_width}
        cand   == IF inBand = {} THEN all ELSE inBand
        score(a) == kswScore(a, ref, query, 1, 1, "", cfg)
    IN  {cigar_get_CIGAR(a) :
            a \in {x \in cand : inBand = {} \/ \A y \in cand : score(x) >= score(y)}}

\* An empty-side shortcut that mixes up the two operations.
globalAlignKSW2Swapped(ref, query, cfg) ==
    IF Len(ref) = 0 \/ Len(query) = 0
    THEN IF Len(ref) = 0 /\ Len(query) > 0
         THEN {<<cigarToInt(charToOp("D"), Len(query))>>}
         ELSE IF Len(query) = 0 /\ Len(ref) > 0
         THEN {<<cigarToInt(charToOp("I"), Len(ref))>>}
         ELSE {<<>>}
    ELSE ksw_extz2_sse(query, ref,
            [cfg EXCEPT !.band_width = auto_band(Len(ref), Len(query))])

\* globalAlignKSW2(ref, query, cfg): the CIGARs the call can return.
globalAlignKSW2(ref, query, cfg) ==
    IF Len(ref) = 0 \/ Len(query) = 0
    THEN IF Len(ref) = 0 /\ Len(query) > 0
         THEN {<<cigarToInt(charToOp("I"), Len(query))>>}
         ELSE IF Len(query) = 0 /\ Len(ref) > 0
         THEN {<<cigarToInt(charToOp("D"), Len(ref))>>}
         ELSE {<<>>}
    ELSE ksw_extz2_sse(query, ref,
            [cfg EXCEPT !.band_width = auto_band(Len(ref), Len(query))])

\* Bounds that are clamped to the sequences but not put in order.
segmentBoundsUnordered(st, ref_end0, qry_end0, ref_len, qry_len) ==
    [ref_start |-> Min(st.ref_pos, ref_len),
     qry_start |-> Min(st.qry_pos, qry_len),
     ref_end   |-> Min(ref_end0, ref_len),
     qry_end   |-> Min(qry_end0, qry_len)]

\* The head of the lambda append_segment of globalAlignMM2, called with the
\* cursors (ref_pos, qry_pos) of st as the segment start: the bounds clamped
\* to the sequences, a reversed interval made empty.
segmentBounds(st, ref_end0, qry_end0, ref_len, qry_len) ==
    LET ref_start == Min(st.ref_pos, ref_len)
        qry_start == Min(st.qry_pos, qry_len)
    IN  [ref_start |-> ref_start,
         qry_start |-> qry_start,
         ref_end   |-> Max(Min(ref_end0, ref_len), ref_start),
         qry_end   |-> Max(Min(qry_end0, qry_len), qry_start)]

\* A fallback that starts the result again from the forced CIGAR.
appendSegmentForgetting(st, b, seg_cigar) ==
    LET seg_ref_len == b.ref_end - b.ref_start
        seg_qry_len == b.qry_end - b.qry_start
        forced_cigar ==
            (IF seg_qry_len > 0
             THEN <<cigarToInt(charToOp("I"), seg_qry_len)>> ELSE <<>>)
            \o (IF seg_ref_len > 0
                THEN <<cigarToInt(charToOp("D"), seg_ref_len)>> ELSE <<>>)
    IN  IF getRefLength(seg_cigar) # seg_ref_len
           \/ getQueryLength(seg_cigar) # seg_qry_len
        THEN [result  |-> forced_cigar,
              ref_pos |-> b.ref_end, qry_pos |-> b.qry_end]
        ELSE [result  |-> appendCigar(st.result, seg_cigar),
              ref_pos |-> b.ref_start + getRefLength(seg_cigar),
              qry_pos |-> b.qry_start + getQueryLength(seg_cigar)]

\* The rest of append_segment, from the CIGAR seg_cigar the segment aligner
\* returned for the bounds b: the consistency test, the forced fallback, the
\* append and the new cursors.
appendSegmentCigar(st, b, seg_cigar) ==
    LET seg_ref_len == b.ref_end - b.ref_start
        seg_qry_len == b.qry_end - b.qry_start
        forced_cigar ==
            (IF seg_qry_len > 0
             THEN <<cigarToInt(charToOp("I"), seg_qry_len)>> ELSE <<>>)
            \o (IF seg_ref_len > 0
                THEN <<cigarToInt(charToOp("D"), seg_ref_len)>> ELSE <<>>)
    IN  IF getRefLength(seg_cigar) # seg_ref_len
           \/ getQueryLength(seg_cigar) # seg_qry_len
        THEN [result  |-> appendCigar(st.result, forced_cigar),
              ref_pos |-> b.ref_end, qry_pos |-> b.qry_end]
        ELSE [result  |-> appendCigar(st.result, seg_cigar),
              ref_pos |-> b.ref_start + getRefLength(seg_cigar),
              qry_pos |-> b.qry_start + getQueryLength(seg_cigar)]

\* The lambda append_segment of globalAlignMM2 with globalAlignKSW2 as the
\* segment aligner: the states it can leave.
append_segment(st, ref_end0, qry_end0, ref, query, seg_cfg) ==
    LET b == segmentBounds(st, ref_end0, qry_end0, Len(ref), Len(query))
    IN  {appendSegmentCigar(st, b, seg_cigar) :
            seg_cigar \in globalAlignKSW2(
                              SubSeq(ref, b.ref_start + 1, b.ref_end),
                              SubSeq(query, b.qry_start + 1, b.qry_end),
                              seg_cfg)}

\* std::sort of the chain by (pos_qry, pos_ref).
anchorLess(a, b) ==
    IF a.pos_qry # b.pos_qry THEN a.pos_qry < b.pos_qry ELSE a.pos_ref < b.pos_ref

RECURSIVE sortChain(_)
sortChain(chain) ==
    IF chain = <<>> THEN <<>>
    ELSE LET k == CHOOSE k \in 1..Len(chain) :
                      \A l \in 1..Len(chain) : ~anchorLess(chain[l], chain[k])
         IN  <<chain[k]>>
             \o sortChain(SubSeq(chain, 1, k - 1) \o SubSeq(chain, k + 1, Len(chain)))

\* The loop over the chain: span segment of anchor i, then the gap to anchor
\* i + 1.
RECURSIVE mm2Chain(_, _, _, _, _, _)
mm2Chain(states, chain, i, ref, query, cfg) ==
    IF i > Len(chain) THEN states
    ELSE LET a        == chain[i]
             spanned  == UNION {append_segment(st, a.pos_ref + a.span,
                                    a.pos_qry + a.span, ref, query, cfg)
                                : st \in states}
             gapped   == IF i + 1 <= Len(chain)
                         THEN UNION {append_segment(st, chain[i + 1].pos_ref,
                                         chain[i + 1].pos_qry, ref, query, cfg)
                                     : st \in spanned}
                         ELSE spanned
         IN  mm2Chain(gapped, chain, i + 1, ref, query, cfg)

\* globalAlignMM2 from the chain chainAnchors returned: the CIGARs the call
\* can return.
globalAlignMM2(ref, query, chain_anchors) ==
    IF chain_anchors = <<>> THEN globalAlignKSW2(ref, query, KSW2AlignConfig)
    ELSE LET cfg       == KSW2AlignConfig
             first_cfg == [KSW2AlignConfig EXCEPT !.flag = {"GENERIC_SC"}]
             chain     == sortChain(chain_anchors)
             start     == [result |-> <<>>, ref_pos |-> 0, qry_pos |-> 0]
             left      == append_segment(start, chain[1].pos_ref,
                                         chain[1].pos_qry, ref, query, first_cfg)
             middle    == mm2Chain(left, chain, 1, ref, query, cfg)
             right     == UNION {append_segment(st, Len(ref), Len(query),
                                                ref, query, cfg)
                                 : st \in middle}
         IN  UNION {IF getRefLength(st.result) # Len(ref)
                       \/ getQueryLength(st.result) # Len(query)
                    THEN globalAlignKSW2(ref, query, KSW2AlignConfig)
                    ELSE {st.result}
                    : st \in right}

\* =========================================================================
\* The stream orchestrator: RefAligner (constructor, alignQueryToRef,
\* mergeAlignedResults)
\* =========================================================================
Threads == 0..(NThreads - 1)

\* The reference FASTA and the query FASTA of a run.
RefFile ==
    << [id |-> "r1", seq |-> <<"C">>], [id |-> "r2", seq |-> <<"A", "A">>] >>

\* The consensus the external MSA step yields for RefFile.
ConsensusString == <<"C", "A">>

QueryPool == << <<"C", "C">>, <<"A">>, <<"C", "A", "C">>, <<>> >>

QueryFile ==
    [i \in 1..NQueries |->
        [id |-> i, seq |-> QueryPool[((i - 1) % Len(QueryPool)) + 1]]]

NoRecord == [id |-> "", seq |-> <<>>]

NoHist == [tid |-> -1]

SamHeader == [qname |-> 0, rname |-> "@HD", cigar |-> <<>>, seq |-> <<>>]

VARIABLES
    pc,                  \* where the caller's thread (OpenMP thread 0) is
    keep_first_length,   \* RefAligner option
    ref_sequences,       \* RefAligner::ref_sequences
    ref_sketch,          \* RefAligner::ref_sketch
    ref_minimizers,      \* RefAligner::ref_minimizers
    consensus_seq,       \* RefAligner::consensus_seq
    reader_pos,          \* records the query reader has consumed
    chunk,               \* the current chunk
    claimed,             \* loop iterations the OpenMP scheduler has handed out
    cur,                 \* cur[t]: iteration thread t is executing, 0 if none
    outs,                \* outs[t]: what was written to thread<t>.sam
    outs_with_insertion, \* outs_with_insertion[t]: thread<t>_insertion.sam
    flush_idx,           \* writers flushed so far in the current flush loops
    on_disk,             \* on_disk[w]: entries of writer w that reached its file
    files,               \* paths that exist in the result directory
    io_error,            \* which writer call failed, "none" if none
    fasta_out,           \* all_insertion.fasta
    merge_idx,           \* SAM files merged so far
    hist,                \* per query: who processed it, with which CIGARs
    fn_in,               \* arguments of the pure function being called
    fn_out               \* its result

vars ==
    <<pc, keep_first_length, ref_sequences, ref_sketch, ref_minimizers,
      consensus_seq,
      reader_pos, chunk, claimed, cur, outs, outs_with_insertion, flush_idx,
      on_disk, files, io_error, fasta_out, merge_idx, hist, fn_in, fn_out>>

refVars ==
    <<keep_first_length, ref_sequences, ref_sketch, ref_minimizers,
      consensus_seq>>

fnVars == <<fn_in, fn_out>>

\* Writers 0..T-1 are outs, T..2T-1 are outs_with_insertion (flush order).
Writers == 0..(2 * NThreads - 1)

outPath(tid) == <<"thread", tid, ".sam">>

insertionPath(tid) == <<"thread", tid, "_insertion.sam">>

makeSamRecord(q, ref_name, cigar_str) ==
    [qname |-> q.id, rname |-> ref_name, cigar |-> cigar_str, seq |-> q.seq]

\* The records a SamReader yields from a file: header lines are skipped.
samRecords(file) == SelectSeq(file, LAMBDA r : r.rname # "@HD")

\* Nothing of the orchestrator has run.
StreamIdle ==
    /\ ref_sequences = <<>>
    /\ ref_sketch = <<>>
    /\ ref_minimizers = <<>>
    /\ consensus_seq = NoRecord
    /\ reader_pos = 0
    /\ chunk = <<>>
    /\ claimed = {}
    /\ cur = [t \in Threads |-> 0]
    /\ outs = [t \in Threads |-> <<>>]
    /\ outs_with_insertion = [t \in Threads |-> <<>>]
    /\ flush_idx = 0
    /\ on_disk = [w \in Writers |-> 0]
    /\ files = {}
    /\ io_error = "none"
    /\ fasta_out = <<>>
    /\ merge_idx = 0
    /\ hist = [i \in 1..NQueries |-> NoHist]

Init ==
    /\ pc = "new"
    /\ keep_first_length \in BOOLEAN
    /\ StreamIdle
    /\ fn_in = <<>>
    /\ fn_out = <<>>

\* RefAligner(const Options&, ...) passes noncanonical = true.
noncanonical == TRUE

\* The reference FASTA files a run can be given: RefFile, or one without records.
RefInputs == {RefFile, <<>>}

\* The string generateConsensusSequence returns for the aligned references.
consensusOf(file) == IF file = <<>> THEN <<>> ELSE ConsensusString

\* ref_sequences.front(): on an empty vector the behaviour is undefined, and a
\* build yields either some record (here the empty one) or a crash.
front(v) == IF v = <<>> THEN NoRecord ELSE Head(v)

\* RefAligner::RefAligner: index every reference, then fix the consensus.
RefAlignerCtor ==
    /\ pc = "new"
    /\ \E file \in RefInputs :
          /\ ref_sequences' = file
          /\ ref_sketch' =
                [r \in 1..Len(file) |->
                    sketchFromSequence(file[r].seq, kmer_size, sketch_size)]
          /\ ref_minimizers' =
                [r \in 1..Len(file) |->
                    extractMinimizerHash(file[r].seq, kmer_size, window_size,
                                         noncanonical)]
          /\ consensus_seq' =
                IF keep_first_length THEN front(file)
                ELSE [id |-> "consensus", seq |-> consensusOf(file)]
    /\ pc' = "constructed"
    /\ UNCHANGED <<keep_first_length, reader_pos, chunk, claimed, cur, outs,
                   outs_with_insertion, flush_idx, on_disk, files, io_error,
                   fasta_out, merge_idx, hist, fnVars>>

\* The constructor with keep_first_length on a reference file without records:
\* front() of the empty vector crashes the process.
CtorFrontCrash ==
    /\ pc = "new"
    /\ keep_first_length
    /\ <<>> \in RefInputs
    /\ pc' = "terminated"
    /\ UNCHANGED <<refVars, reader_pos, chunk, claimed, cur, outs,
                   outs_with_insertion, flush_idx, on_disk, files, io_error,
                   fasta_out, merge_idx, hist, fnVars>>

\* A guard that lets every index through.
referenceNeverEmpty == FALSE

\* alignQueryToRef, its first statement: is there no reference to align to?
referenceEmpty == ref_sequences = <<>> \/ ref_sketch = <<>>

\* alignQueryToRef on an empty index: std::runtime_error leaves the call before
\* the result directory, the writers or the reader exist.
RejectEmptyReference ==
    /\ pc = "constructed"
    /\ referenceEmpty
    /\ pc' = "thrown"
    /\ UNCHANGED <<refVars, reader_pos, chunk, claimed, cur, outs,
                   outs_with_insertion, flush_idx, on_disk, files, io_error,
                   fasta_out, merge_idx, hist, fnVars>>

\* alignQueryToRef up to the read loop: one SAM writer pair per thread, each
\* given its header by the calling thread.
OpenWriters ==
    /\ pc = "constructed"
    /\ ~referenceEmpty
    /\ outs' = [t \in Threads |-> <<SamHeader>>]
    /\ outs_with_insertion' = [t \in Threads |-> <<SamHeader>>]
    /\ files' = {outPath(t) : t \in Threads} \cup {insertionPath(t) : t \in Threads}
    /\ pc' = "read"
    /\ UNCHANGED <<refVars, reader_pos, chunk, claimed, cur, flush_idx,
                   on_disk, io_error, fasta_out, merge_idx, hist, fnVars>>

\* batch_size == 0 is replaced by 1.
batch_size == IF BatchSize = 0 THEN 1 ELSE BatchSize

\* A reader that rewinds before every batch.
rereadBatch(pos, n) == SubSeq(QueryFile, 1, n)

\* reader.next() n times from position pos.
readBatch(pos, n) == SubSeq(QueryFile, pos + 1, pos + n)

\* The read loop body up to the parallel region: up to batch_size records.
ReadChunk ==
    /\ pc = "read"
    /\ LET n == Min(batch_size, NQueries - reader_pos)
       IN  /\ chunk' = readBatch(reader_pos, n)
           /\ reader_pos' = reader_pos + n
           /\ pc' = IF n = 0 THEN "returned" ELSE "parallel"
    /\ claimed' = {}
    /\ UNCHANGED <<refVars, cur, outs, outs_with_insertion, flush_idx, on_disk,
                   files, io_error, fasta_out, merge_idx, hist, fnVars>>

\* A choice that ignores the re-alignment.
firstPassCigar(initial_cigar, recheck_cigar) == initial_cigar

\* line 244: the re-alignment, or the first pass when the re-alignment is empty.
finalCigar(initial_cigar, recheck_cigar) ==
    IF recheck_cigar = <<>> THEN initial_cigar ELSE recheck_cigar

\* alignOneQueryToRef: every (writer, record) the call can produce for q; the
\* choice is the library's tie-break between equally good alignments.
alignOneQueryToRef(q) ==
    LET qsk      == sketchFromSequence(q.seq, kmer_size, sketch_size)
        best_ref == ref_sequences[bestRef(qsk, ref_sketch)]
        first(initial_cigar) ==
            {[to |-> "out", rechecked |-> FALSE,
              initial |-> initial_cigar, recheck |-> <<>>,
              rec |-> makeSamRecord(q, best_ref.id, cigarToString(initial_cigar))]}
        second(initial_cigar) ==
            {[to |-> IF hasInsertion(finalCigar(initial_cigar, recheck_cigar))
                     THEN "out_insertion" ELSE "out",
              rechecked |-> TRUE,
              initial |-> initial_cigar, recheck |-> recheck_cigar,
              rec |-> makeSamRecord(q, consensus_seq.id,
                         cigarToString(finalCigar(initial_cigar, recheck_cigar)))]
             : recheck_cigar \in globalAlignWFA2(consensus_seq.seq, q.seq)}
    IN  UNION {IF ~hasInsertion(initial_cigar)
               THEN first(initial_cigar) ELSE second(initial_cigar)
               : initial_cigar \in globalAlignWFA2(best_ref.seq, q.seq)}

\* A runtime whose team members all report thread number 0.
omp_shared_thread_num(t) == 0

\* omp_get_thread_num() of team member t: the index of its two writers.
omp_get_thread_num(t) == t

\* A scheduler that forgets what it has handed out.
omp_any_iteration(done, n) == 1..n

\* schedule(dynamic, 1): the iterations a requesting thread can be handed.  No
\* monotonic modifier is given, so any iteration not yet handed out qualifies.
omp_dynamic_next(done, n) == (1..n) \ done

\* A region the calling thread leaves without waiting for its team.
omp_nowait ==
    claimed = 1..Len(chunk)

\* The implicit barrier that ends the parallel region: every iteration handed
\* out and every thread back from its last one.
omp_barrier ==
    /\ claimed = 1..Len(chunk)
    /\ \A t \in Threads : cur[t] = 0

Stopped == pc \in {"thrown", "terminated"}

\* A thread of the team asks the scheduler for its next iteration.
Take(t) ==
    /\ pc = "parallel"
    /\ cur[t] = 0
    /\ \E i \in omp_dynamic_next(claimed, Len(chunk)) :
          /\ cur' = [cur EXCEPT ![t] = i]
          /\ claimed' = claimed \cup {i}
    /\ UNCHANGED <<pc, refVars, reader_pos, chunk, outs, outs_with_insertion,
                   flush_idx, on_disk, files, io_error, fasta_out, merge_idx,
                   hist, fnVars>>

\* A loop body that takes the chosen reference by std::move: the record left
\* in ref_sequences is empty afterwards.
ProcessMovingRef(t) ==
    /\ ~Stopped
    /\ cur[t] # 0
    /\ \E r \in alignOneQueryToRef(chunk[cur[t]]) :
          /\ outs' = [outs EXCEPT ![omp_get_thread_num(t)] = Append(@, r.rec)]
          /\ hist' = [hist EXCEPT ![chunk[cur[t]].id] =
                        [tid |-> t, iter |-> cur[t], rechecked |-> r.rechecked,
                         initial |-> r.initial, recheck |-> r.recheck]]
    /\ ref_sequences' = [ref_sequences EXCEPT ![1].seq = <<>>]
    /\ cur' = [cur EXCEPT ![t] = 0]
    /\ UNCHANGED <<pc, keep_first_length, ref_sketch, ref_minimizers,
                   consensus_seq, reader_pos, chunk, claimed,
                   outs_with_insertion, flush_idx, on_disk, files, io_error,
                   fasta_out, merge_idx, fnVars>>

\* The loop body for one iteration: alignOneQueryToRef(chunk[i], out,
\* out_insertion) with the writers of omp_get_thread_num().
Process(t) ==
    /\ ~Stopped
    /\ cur[t] # 0
    /\ \E r \in alignOneQueryToRef(chunk[cur[t]]) :
          /\ IF r.to = "out"
             THEN /\ outs' = [outs EXCEPT
                                ![omp_get_thread_num(t)] = Append(@, r.rec)]
                  /\ UNCHANGED outs_with_insertion
             ELSE /\ outs_with_insertion' =
                        [outs_with_insertion EXCEPT
                            ![omp_get_thread_num(t)] = Append(@, r.rec)]
                  /\ UNCHANGED outs
          /\ hist' = [hist EXCEPT ![chunk[cur[t]].id] =
                        [tid |-> t, iter |-> cur[t], rechecked |-> r.rechecked,
                         initial |-> r.initial, recheck |-> r.recheck]]
    /\ cur' = [cur EXCEPT ![t] = 0]
    /\ UNCHANGED <<pc, refVars, reader_pos, chunk, claimed, flush_idx, on_disk,
                   files, io_error, fasta_out, merge_idx, fnVars>>

\* writeSam throws inside the parallel region.  Nothing in the region catches
\* it, so the exception leaves a structured block: the process is terminated.
ProcessFail(t) ==
    /\ ~Stopped
    /\ cur[t] # 0
    /\ io_error' = "writeSam"
    /\ pc' = "terminated"
    /\ UNCHANGED <<refVars, reader_pos, chunk, claimed, cur, outs,
                   outs_with_insertion, flush_idx, on_disk, files, fasta_out,
                   merge_idx, hist, fnVars>>

\* The calling thread leaves the parallel region.
RegionEnd ==
    /\ pc = "parallel"
    /\ omp_barrier
    /\ pc' = "flush"
    /\ flush_idx' = 0
    /\ UNCHANGED <<refVars, reader_pos, chunk, claimed, cur, outs,
                   outs_with_insertion, on_disk, files, io_error, fasta_out,
                   merge_idx, hist, fnVars>>

writerFile(w) ==
    IF w < NThreads THEN outs[w] ELSE outs_with_insertion[w - NThreads]

\* One step of the two flush loops: outs first, then outs_with_insertion.
Flush ==
    /\ pc = "flush"
    /\ on_disk' = [on_disk EXCEPT ![flush_idx] = Len(writerFile(flush_idx))]
    /\ flush_idx' = flush_idx + 1
    /\ pc' = IF flush_idx + 1 = 2 * NThreads THEN "read" ELSE "flush"
    /\ UNCHANGED <<refVars, reader_pos, chunk, claimed, cur, outs,
                   outs_with_insertion, files, io_error, fasta_out, merge_idx,
                   hist, fnVars>>

\* flush throws in the calling thread: the exception leaves alignQueryToRef.
FlushFail ==
    /\ pc = "flush"
    /\ io_error' = "flush"
    /\ pc' = "thrown"
    /\ UNCHANGED <<refVars, reader_pos, chunk, claimed, cur, outs,
                   outs_with_insertion, flush_idx, on_disk, files, fasta_out,
                   merge_idx, hist, fnVars>>

\* The paths in descending thread order.
reversed_sam_paths == [i \in 1..NThreads |-> NThreads - i]

\* mergeAlignedResults: the insertion SAM paths in thread order.
insertion_sam_paths == [i \in 1..NThreads |-> i - 1]

toFasta(rec) == [id |-> rec.qname, seq |-> rec.seq]

fileFasta(tid) ==
    LET recs == samRecords(SubSeq(outs_with_insertion[tid], 1,
                                  on_disk[NThreads + tid]))
    IN  [k \in 1..Len(recs) |-> toFasta(recs[k])]

\* mergeConsensusAndSamToFasta: the consensus record first.
MergeConsensus ==
    /\ pc = "returned"
    /\ fasta_out' = <<consensus_seq>>
    /\ merge_idx' = 0
    /\ pc' = "merge"
    /\ UNCHANGED <<refVars, reader_pos, chunk, claimed, cur, outs,
                   outs_with_insertion, flush_idx, on_disk, files, io_error,
                   hist, fnVars>>

\* mergeConsensusAndSamToFasta: the next SAM file, record by record.
MergeFile ==
    /\ pc = "merge"
    /\ fasta_out' = fasta_out \o fileFasta(insertion_sam_paths[merge_idx + 1])
    /\ merge_idx' = merge_idx + 1
    /\ pc' = IF merge_idx + 1 = NThreads THEN "done" ELSE "merge"
    /\ UNCHANGED <<refVars, reader_pos, chunk, claimed, cur, outs,
                   outs_with_insertion, flush_idx, on_disk, files, io_error,
                   hist, fnVars>>

Next ==
    \/ RefAlignerCtor
    \/ CtorFrontCrash
    \/ RejectEmptyReference
    \/ OpenWriters
    \/ ReadChunk
    \/ \E t \in Threads : Take(t)
    \/ \E t \in Threads : Process(t)
    \/ \E t \in Threads : ProcessFail(t)
    \/ RegionEnd
    \/ Flush
    \/ FlushFail
    \/ MergeConsensus
    \/ MergeFile

Spec == Init /\ [][Next]_vars

\* =========================================================================
\* Claims about the stream orchestrator (specification Spec)
\* =========================================================================
\* Positions <<writer, index>> of the SAM records of query q in the 2T files.
recordSlots(q) ==
    {wk \in Writers \X (1..(2 * NQueries + 1)) :
        /\ wk[2] <= Len(writerFile(wk[1]))
        /\ writerFile(wk[1])[wk[2]].qname = q}

Returned == pc \in {"returned", "merge", "done"}

\* C1: no query ever has more than one SAM record over the 2T per-worker
\* files, and once alignQueryToRef has returned every query of the input has
\* exactly one record, in exactly one file.
C1_OneRecordPerQuery ==
    /\ \A q \in 1..NQueries : Cardinality(recordSlots(q)) <= 1
    /\ Returned => \A q \in 1..NQueries : Cardinality(recordSlots(q)) = 1

\* alignQueryToRef has returned with records in the files of two different
\* workers and in an insertion file.
C1_Witness ==
    /\ pc = "returned"
    /\ \E t1, t2 \in Threads :
          /\ t1 # t2
          /\ Len(outs[t1]) + Len(outs_with_insertion[t1]) > 2
          /\ Len(outs[t2]) + Len(outs_with_insertion[t2]) > 2
    /\ \E t \in Threads : Len(outs_with_insertion[t]) > 1

\* The threads operating on the writer pair of index w in the current state:
\* team members executing an iteration with that pair, and the calling thread
\* (thread 0) while it writes the headers or runs the flush loops.
writerUsers(w) ==
    {t \in Threads : cur[t] # 0 /\ omp_get_thread_num(t) = w}
    \cup (IF pc = "flush" THEN {0} ELSE {})

\* C2: a writer pair is used by at most one thread at a time; every record is
\* in a file of the thread that processed its query; while the calling thread
\* flushes, no worker is executing an iteration.
C2_WriterExclusive ==
    /\ \A w \in Threads : Cardinality(writerUsers(w)) <= 1
    /\ \A q \in 1..NQueries :
          hist[q] # NoHist => \E wk \in recordSlots(q) : wk[1] % NThreads = hist[q].tid
    /\ pc = "flush" => \A t \in Threads : cur[t] = 0

\* The calling thread is in the flush loops after a worker other than itself
\* wrote a record in this chunk.
C2_Witness ==
    /\ pc = "flush"
    /\ flush_idx = 1
    /\ \E i \in 1..Len(chunk) :
          hist[chunk[i].id] # NoHist /\ hist[chunk[i].id].tid # 0

\* C3: whenever the calling thread is about to read a chunk, every query read
\* so far has been processed and its record written.
C3_NoReadBeforeProcessed ==
    pc = "read" =>
        \A q \in 1..reader_pos : hist[q] # NoHist /\ recordSlots(q) # {}

\* The calling thread is about to read the second chunk.
C3_Witness ==
    pc = "read" /\ reader_pos = batch_size /\ reader_pos < NQueries

\* C4: a record is in an insertion file exactly when the first-pass CIGAR has
\* an insertion and the final CIGAR (the re-alignment against the consensus,
\* or the first pass when the re-alignment is empty) has one too; otherwise
\* it is in a non-insertion file.
C4_InsertionRouting ==
    \A q \in 1..NQueries :
        hist[q] # NoHist =>
            LET h      == hist[q]
                final  == IF h.rechecked /\ h.recheck # <<>>
                          THEN h.recheck ELSE h.initial
                hasI(c) == \E k \in 1..Len(c) : intToCigar(c[k])[1] = "I"
                wanted == hasI(h.initial) /\ hasI(final)
            IN  \A wk \in recordSlots(q) : (wk[1] >= NThreads) <=> wanted

\* Some record was routed to an insertion file and some re-aligned record to a
\* non-insertion file.
C4_Witness ==
    /\ \E q \in 1..NQueries :
          /\ hist[q] # NoHist
          /\ \E wk \in recordSlots(q) : wk[1] >= NThreads
    /\ \E q \in 1..NQueries :
          /\ hist[q] # NoHist
          /\ hist[q].rechecked
          /\ \E wk \in recordSlots(q) : wk[1] < NThreads

\* C5 (as claimed): the query at index i of a chunk is processed by worker
\* i mod T.
C5_IndexModT ==
    \A q \in 1..NQueries :
        hist[q] # NoHist => hist[q].tid = (hist[q].iter - 1) % NThreads

\* C5 (amended): within a chunk every iteration the scheduler has handed out
\* is held by exactly one worker or has been processed by exactly one worker,
\* whichever worker asked for it; an iteration not handed out is neither.
C5_DynamicDispatch ==
    pc = "parallel" =>
        \A i \in 1..Len(chunk) :
            LET holders == {t \in Threads : cur[t] = i}
                done    == IF hist[chunk[i].id] # NoHist THEN 1 ELSE 0
            IN  /\ Cardinality(holders) + done = (IF i \in claimed THEN 1 ELSE 0)
                /\ done = 1 => hist[chunk[i].id].tid \in Threads
                /\ done = 1 => Cardinality(recordSlots(chunk[i].id)) = 1

\* A query was processed by a worker other than (index mod T) while the
\* region is still running.
C5_Witness ==
    /\ pc = "parallel"
    /\ \E i \in 1..Len(chunk) :
          /\ hist[chunk[i].id] # NoHist
          /\ hist[chunk[i].id].tid # (i - 1) % NThreads

\* C6 (as claimed): in every per-worker file the records appear in the order
\* of their queries in the input.
C6_FileKeepsInputOrder ==
    \A w \in Writers :
        LET recs == samRecords(writerFile(w))
        IN  \A k, l \in 1..Len(recs) : k < l => recs[k].qname < recs[l].qname

\* C7 (as claimed): a failed write or flush ends alignQueryToRef with the
\* error thrown to its caller, the per-worker files still on disk.
C7_ErrorPropagates ==
    io_error # "none" =>
        /\ pc = "thrown"
        /\ \A t \in Threads : {outPath(t), insertionPath(t)} \subseteq files

\* The FASTA records of the insertion files of threads 0..n-1, concatenated.
RECURSIVE insertionFilesUpTo(_)
insertionFilesUpTo(n) ==
    IF n = 0 THEN <<>>
    ELSE LET recs == samRecords(outs_with_insertion[n - 1])
         IN  insertionFilesUpTo(n - 1)
             \o [k \in 1..Len(recs) |-> [id |-> recs[k].qname, seq |-> recs[k].seq]]

lifecycle ==
    CASE pc = "new" -> 1                                \* Constructed
      [] pc = "constructed" -> 2                        \* Indexed
      [] pc \in {"read", "parallel", "flush"} -> 3      \* Aligning
      [] pc = "returned" -> 4                           \* AlignDone
      [] pc \in {"merge", "done"} -> 5                  \* Merged
      [] OTHER -> 0

\* Something of stream alignment exists: a writer, a file, a query read.
alignmentTouched ==
    \/ files # {} \/ reader_pos > 0 \/ chunk # <<>>
    \/ \E t \in Threads : outs[t] # <<>> \/ outs_with_insertion[t] # <<>>

refIndex == <<ref_sequences, ref_sketch, ref_minimizers, consensus_seq>>

\* Thread t finishes the query it holds in this step.
finishesQuery(t) == cur[t] # 0 /\ cur'[t] = 0

\* C12: once the constructor has built the index no step changes it; a step in
\* which worker t finishes a query appends one record to one of t's two
\* writers and changes no other writer, file, reader or chunk.
C12_IndexFrozen ==
    [][/\ pc # "new" => refIndex' = refIndex
       /\ \A t \in Threads : finishesQuery(t) =>
            /\ refIndex' = refIndex
            /\ \A u \in Threads \ {t} :
                  /\ outs'[u] = outs[u]
                  /\ outs_with_insertion'[u] = outs_with_insertion[u]
                  /\ cur'[u] = cur[u]
            /\ Len(outs'[t]) + Len(outs_with_insertion'[t])
                 = Len(outs[t]) + Len(outs_with_insertion[t]) + 1
            /\ SubSeq(outs'[t], 1, Len(outs[t])) = outs[t]
            /\ SubSeq(outs_with_insertion'[t], 1, Len(outs_with_insertion[t]))
                 = outs_with_insertion[t]
            /\ UNCHANGED <<pc, reader_pos, chunk, claimed, flush_idx, on_disk,
                           files, io_error, fasta_out, merge_idx>>]_vars

\* Every query was processed by the workers and the index is the one built.
C12_Witness ==
    /\ pc = "returned"
    /\ \A q \in 1..NQueries : hist[q] # NoHist
    /\ \E q1, q2 \in 1..NQueries : hist[q1].tid # hist[q2].tid
    /\ ref_sequences = RefFile
    /\ Len(ref_minimizers) = Len(RefFile)
    /\ ref_minimizers[2] # <<>>

\* =========================================================================
\* The aligner entry points as pure functions (specification SpecAlign)
\* =========================================================================
Sequences == SeqsUpTo(Alphabet, MaxSeqLen)

AnchorSet ==
    [pos_ref : 0..MaxSeqLen, pos_qry : 0..MaxSeqLen, span : {kmer_size}]

streamVars ==
    <<refVars, reader_pos,
      chunk, claimed, cur, outs, outs_with_insertion, flush_idx, on_disk,
      files, io_error, fasta_out, merge_idx, hist>>

InitAlign ==
    /\ pc = "input"
    /\ keep_first_length = FALSE
    /\ StreamIdle
    /\ fn_in \in [ref : Sequences, query : Sequences,
                  chain : SeqsUpTo(AnchorSet, MaxAnchors)]
    /\ fn_out = {}

CallKSW2 ==
    /\ pc = "input"
    /\ fn_out' = globalAlignKSW2(fn_in.ref, fn_in.query, KSW2AlignConfig)
    /\ pc' = "KSW2"
    /\ UNCHANGED <<streamVars, fn_in>>

CallWFA2 ==
    /\ pc = "input"
    /\ fn_out' = globalAlignWFA2(fn_in.ref, fn_in.query)
    /\ pc' = "WFA2"
    /\ UNCHANGED <<streamVars, fn_in>>

CallMM2 ==
    /\ pc = "input"
    /\ fn_out' = globalAlignMM2(fn_in.ref, fn_in.query, fn_in.chain)
    /\ pc' = "MM2"
    /\ UNCHANGED <<streamVars, fn_in>>

NextAlign == CallKSW2 \/ CallWFA2 \/ CallMM2

SpecAlign == InitAlign /\ [][NextAlign]_vars

\* C9: whichever entry point was called (banded DP, wavefront, anchor
\* segmented) and whatever the reference and the query, empty ones included,
\* it returns a CIGAR, and every CIGAR it can return consumes exactly
\* |ref| reference and |query| query characters.
C9_CigarConsumesBoth ==
    pc \in {"KSW2", "WFA2", "MM2"} =>
        /\ fn_out # {}
        /\ \A cigar \in fn_out :
              /\ getRefLength(cigar) = Len(fn_in.ref)
              /\ getQueryLength(cigar) = Len(fn_in.query)

\* The anchor-segmented entry point returned for an empty reference, a
\* non-empty query and a non-empty chain.
C9_Witness ==
    /\ pc = "MM2"
    /\ fn_in.ref = <<>>
    /\ fn_in.query # <<>>
    /\ fn_in.chain # <<>>
    /\ fn_out # {}

\* =========================================================================
\* The viral projection (specification SpecFasta): call_wfa_to_get_cigar,
\* apply_simple_cigar, cigar_to_fasta
\* =========================================================================
\* WFAligner::getAlignment: one character per column, X for a mismatch.
RECURSIVE getAlignment(_, _, _, _, _)
getAlignment(a, ref, query, i, j) ==
    IF a = <<>> THEN <<>>
    ELSE CASE Head(a) = "M" ->
                <<IF ref[i] = query[j] THEN "M" ELSE "X">>
                \o getAlignment(Tail(a), ref, query, i + 1, j + 1)
           [] Head(a) = "I" ->
                <<"I">> \o getAlignment(Tail(a), ref, query, i, j + 1)
           [] Head(a) = "D" ->
                <<"D">> \o getAlignment(Tail(a), ref, query, i + 1, j)

\* call_wfa_to_get_cigar: the CIGAR strings the call can return.
call_wfa_to_get_cigar(viral_sequence, reference_sequence) ==
    LET pen == [mismatch |-> viral_mismatch, gap_opening |-> viral_gap_opening,
                gap_extension |-> viral_gap_extension]
    IN  {getAlignment(a, reference_sequence, viral_sequence, 1, 1)
         : a \in wavefront_align(reference_sequence, viral_sequence, pen)}

RECURSIVE applyFrom(_, _, _)
applyFrom(viral_sequence, cigar, seq_pos) ==
    IF cigar = <<>> THEN <<>>
    ELSE LET op == Head(cigar)
         IN  IF op \in {"M", "X", "="}
             THEN IF seq_pos < Len(viral_sequence)
                  THEN <<viral_sequence[seq_pos + 1]>>
                       \o applyFrom(viral_sequence, Tail(cigar), seq_pos + 1)
                  ELSE <<"-">> \o applyFrom(viral_sequence, Tail(cigar), seq_pos)
             ELSE IF op = "I"
             THEN applyFrom(viral_sequence, Tail(cigar),
                            IF seq_pos < Len(viral_sequence)
                            THEN seq_pos + 1 ELSE seq_pos)
             ELSE IF op = "D"
             THEN <<"-">> \o applyFrom(viral_sequence, Tail(cigar), seq_pos)
             ELSE applyFrom(viral_sequence, Tail(cigar), seq_pos)

apply_simple_cigar(viral_sequence, cigar) == applyFrom(viral_sequence, cigar, 0)

\* while (size < n) push_back('-')
padTo(seq, n) ==
    seq \o [k \in 1..(IF Len(seq) < n THEN n - Len(seq) ELSE 0) |-> "-"]

cigar_to_fasta(viral_sequence, reference_sequence, cigar) ==
    IF cigar = <<>>
    THEN padTo(viral_sequence, Len(reference_sequence))
    ELSE LET curr_aligned_sequence == apply_simple_cigar(viral_sequence, cigar)
         IN  IF Len(curr_aligned_sequence) < Len(reference_sequence)
             THEN padTo(curr_aligned_sequence, Len(reference_sequence))
             ELSE SubSeq(curr_aligned_sequence, 1, Len(reference_sequence))

InitFasta ==
    /\ pc = "input"
    /\ keep_first_length = FALSE
    /\ StreamIdle
    /\ fn_in \in [viral : Sequences, ref : Sequences,
                  cigar : SeqsUpTo({"M", "I", "D", "S"}, MaxCigarLen)]
    /\ fn_out = <<>>

\* cigar_to_fasta on the CIGAR string it is handed.
CallCigarToFasta ==
    /\ pc = "input"
    /\ fn_out' = cigar_to_fasta(fn_in.viral, fn_in.ref, fn_in.cigar)
    /\ pc' = "projected"
    /\ UNCHANGED <<streamVars, fn_in>>

\* The task of the viral driver for one query: align, then project.
ViralTask ==
    /\ pc = "input"
    /\ \E cigar \in call_wfa_to_get_cigar(fn_in.viral, fn_in.ref) :
          fn_out' = cigar_to_fasta(fn_in.viral, fn_in.ref, cigar)
    /\ pc' = "task"
    /\ UNCHANGED <<streamVars, fn_in>>

NextFasta == CallCigarToFasta \/ ViralTask

SpecFasta == InitFasta /\ [][NextFasta]_vars

\* C10 (as claimed): every projected row has exactly the reference length,
\* whatever the CIGAR string: empty, or projecting to fewer or more columns
\* than the reference has.
C10_RowHasRefLength ==
    pc \in {"projected", "task"} => Len(fn_out) = Len(fn_in.ref)

\* =========================================================================
\* CIGAR projection and composition as pure functions (specification
\* SpecCigar): cigar::alignQueryToRef, declared as padQueryToRefByCigar, and
\* cigar::appendCigar
\* =========================================================================
\* The copy loop of the M/=/X, I and S branches:
\* query[--aligned_pos] = original_query[--query_pos], len times.  An index
\* below zero is the wrapped std::size_t: the access is out of bounds.
RECURSIVE copyBack(_, _, _)
copyBack(st, original_query, len) ==
    IF len = 0 THEN st
    ELSE LET a == st.aligned_pos - 1
             q == st.query_pos - 1
             ok == a >= 0 /\ a < Len(st.query) /\ q >= 0
                     /\ q < Len(original_query)
         IN  copyBack(
                 [st EXCEPT !.aligned_pos = a, !.query_pos = q,
                            !.ub = @ \/ ~ok,
                            !.query = IF ok
                                      THEN [@ EXCEPT ![a + 1] =
                                               original_query[q + 1]]
                                      ELSE @],
                 original_query, len - 1)

\* Step 3 of cigar::alignQueryToRef: the units from the last to the first.
RECURSIVE fillBack(_, _, _, _)
fillBack(st, original_query, cigar, i) ==
    IF i = 0 \/ st.thrown THEN st
    ELSE LET op  == intToCigar(cigar[i])[1]
             len == intToCigar(cigar[i])[2]
             nx  == IF op \in {"M", "=", "X", "I", "S"}
                    THEN copyBack(st, original_query, len)
                    ELSE IF op \in {"D", "N", "P"}
                    THEN [st EXCEPT !.aligned_pos = @ - len]
                    ELSE IF op = "H" THEN st
                    ELSE [st EXCEPT !.thrown = TRUE]
         IN  fillBack(nx, original_query, cigar, i - 1)

RECURSIVE alignedLength(_)
alignedLength(cigar) ==
    IF cigar = <<>> THEN 0
    ELSE (IF intToCigar(Head(cigar))[1] \in {"M", "=", "X", "D", "I", "S"}
          THEN intToCigar(Head(cigar))[2] ELSE 0) + alignedLength(Tail(cigar))

\* A projection sized by the reference length of the CIGAR.
padToRefLength(query, cigar) ==
    IF query = <<>> \/ cigar = <<>> \/ getRefLength(cigar) = 0
    THEN [kind |-> "ok", query |-> query]
    ELSE [kind |-> "ok", query |-> [k \in 1..getRefLength(cigar) |-> "-"]]

\* cigar::alignQueryToRef(query, cigar): what query holds afterwards.  kind is
\* "ok", "thrown" (unknown operation) or "ub" (an access outside a string).
padQueryToRefByCigar(query, cigar) ==
    IF query = <<>> \/ cigar = <<>> \/ alignedLength(cigar) = 0
    THEN [kind |-> "ok", query |-> query]
    ELSE LET aligned_length == alignedLength(cigar)
             st == fillBack([query |-> [k \in 1..aligned_length |-> "-"],
                             aligned_pos |-> aligned_length,
                             query_pos |-> Len(query),
                             ub |-> FALSE, thrown |-> FALSE],
                            query, cigar, Len(cigar))
         IN  [kind |-> IF st.ub THEN "ub"
                       ELSE IF st.thrown THEN "thrown" ELSE "ok",
              query |-> st.query]

\* Sequence characters of a query that already went through a projection.
GappedAlphabet == {"A", "-"}

\* CIGARs of up to MaxUnits units over the operations ops, lengths from 1.
CigarsOver(ops) ==
    SeqsUpTo({cigarToInt(op, len) : op \in ops, len \in 1..MaxUnitLen},
             MaxUnits)

\* Operation code 9 is not a CIGAR operation: it decodes to '?'.
PadOps == {kOpM, kOpI, kOpD, kOpN, kOpS, kOpH, kOpP, kOpX, 9}

AppendOps == {kOpM, kOpI, kOpD}

InitCigar ==
    /\ pc = "input"
    /\ keep_first_length = FALSE
    /\ StreamIdle
    /\ fn_in \in
          [f : {"pad"}, query : SeqsUpTo(GappedAlphabet, MaxSeqLen),
           cigar : CigarsOver(PadOps)]
          \cup [f : {"append"}, result : CigarsOver(AppendOps),
                cigar_to_add : CigarsOver(AppendOps)]
    /\ fn_out = <<>>

CallPad ==
    /\ pc = "input"
    /\ fn_in.f = "pad"
    /\ fn_out' = padQueryToRefByCigar(fn_in.query, fn_in.cigar)
    /\ pc' = "padded"
    /\ UNCHANGED <<streamVars, fn_in>>

CallAppend ==
    /\ pc = "input"
    /\ fn_in.f = "append"
    /\ fn_out' = appendCigar(fn_in.result, fn_in.cigar_to_add)
    /\ pc' = "appended"
    /\ UNCHANGED <<streamVars, fn_in>>

NextCigar == CallPad \/ CallAppend

SpecCigar == InitCigar /\ [][NextCigar]_vars

\* Sum of the lengths of the units of cigar whose operation is in ops.
RECURSIVE lengthOver(_, _)
lengthOver(cigar, ops) ==
    IF cigar = <<>> THEN 0
    ELSE (IF unitOp(Head(cigar)) \in ops THEN unitLen(Head(cigar)) ELSE 0)
         + lengthOver(Tail(cigar), ops)

\* C13 (as claimed): after the projection with a CIGAR whose query length is
\* |seq|, the string has length ref_length(cigar).
C13_PaddedHasRefLength ==
    (pc = "padded" /\ getQueryLength(fn_in.cigar) = Len(fn_in.query)) =>
        /\ fn_out.kind = "ok"
        /\ Len(fn_out.query) = getRefLength(fn_in.cigar)

\* C13 (amended): for a non-empty seq and a CIGAR over M, I, D, S, H, =, X
\* whose query length is |seq|, the projection succeeds and the string has
\* length ref_length(cigar) plus the lengths of the I and S units, which is
\* ref_length(cigar) when the CIGAR has no I and no S unit.
C13_PaddedLength ==
    (/\ pc = "padded"
     /\ fn_in.query # <<>>
     /\ getQueryLength(fn_in.cigar) = Len(fn_in.query)
     /\ \A i \in 1..Len(fn_in.cigar) :
           unitOp(fn_in.cigar[i]) \in
               {kOpM, kOpI, kOpD, kOpS, kOpH, kOpEq, kOpX}) =>
        /\ fn_out.kind = "ok"
        /\ Len(fn_out.query) =
              getRefLength(fn_in.cigar) + lengthOver(fn_in.cigar, {kOpI, kOpS})
        /\ ~hasInsertion(fn_in.cigar) /\ lengthOver(fn_in.cigar, {kOpS}) = 0
              => Len(fn_out.query) = getRefLength(fn_in.cigar)

\* A query was projected through a deletion and an insertion.
C13_Witness ==
    /\ pc = "padded"
    /\ fn_in.query = <<"A", "-">>
    /\ fn_in.cigar = <<cigarToInt(kOpD, 2), cigarToInt(kOpI, 2)>>
    /\ fn_out = [kind |-> "ok", query |-> <<"-", "-", "A", "-">>]

\* No two adjacent units of cigar have the same operation.
canonical(cigar) ==
    \A i \in 1..(Len(cigar) - 1) : unitOp(cigar[i]) # unitOp(cigar[i + 1])

\* C15: appending a canonical CIGAR to a canonical CIGAR gives a canonical
\* CIGAR; when the operations at the junction agree the two units become one
\* unit with the sum of their lengths, otherwise the result is the
\* concatenation.
C15_AppendKeepsCanonical ==
    (/\ pc = "appended"
     /\ canonical(fn_in.result)
     /\ canonical(fn_in.cigar_to_add)) =>
        LET a == fn_in.result
            b == fn_in.cigar_to_add
        IN  /\ canonical(fn_out)
            /\ (a # <<>> /\ b # <<>> /\ unitOp(a[Len(a)]) = unitOp(b[1])) =>
                  /\ Len(fn_out) = Len(a) + Len(b) - 1
                  /\ unitOp(fn_out[Len(a)]) = unitOp(b[1])
                  /\ unitLen(fn_out[Len(a)]) = unitLen(a[Len(a)]) + unitLen(b[1])
                  /\ SubSeq(fn_out, 1, Len(a) - 1) = SubSeq(a, 1, Len(a) - 1)
                  /\ SubSeq(fn_out, Len(a) + 1, Len(fn_out)) = Tail(b)
            /\ (a = <<>> \/ b = <<>> \/ unitOp(a[Len(a)]) # unitOp(b[1])) =>
                  fn_out = a \o b

\* The example of the declaration, scaled: [1M, 2I] + [1I, 2M] = [1M, 3I, 2M].
C15_Witness ==
    /\ pc = "appended"
    /\ fn_in.result = <<cigarToInt(kOpM, 1), cigarToInt(kOpI, 2)>>
    /\ fn_in.cigar_to_add = <<cigarToInt(kOpI, 1), cigarToInt(kOpM, 2)>>
    /\ fn_out = <<cigarToInt(kOpM, 1), cigarToInt(kOpI, 3), cigarToInt(kOpM, 2)>>

\* =========================================================================
\* Anchor collection as a pure function (specification SpecAnchor):
\* minimizer::collect_anchors and anchor::compute_ref_occ_threshold.  The
\* double parameters are fractions <<numerator, denominator>>.
\* =========================================================================
\* std::numeric_limits<std::size_t>::max(), scaled to the integers of the
\* checker: larger than every count of the model.
size_t_max == 2 ^ 30

compute_occ_cutoff_top_frac(occs, f_top_frac) ==
    LET n      == Len(occs)
        n_skip == (f_top_frac[1] * n) \div f_top_frac[2]
    IN  IF n = 0 THEN size_t_max
        ELSE IF f_top_frac[1] <= 0 THEN size_t_max
        ELSE IF f_top_frac[1] >= f_top_frac[2] THEN 1
        ELSE IF n_skip = 0 THEN size_t_max
        ELSE CHOOSE v \in Range(occs) :
                /\ Cardinality({i \in 1..n : occs[i] > v}) < n_skip
                /\ Cardinality({i \in 1..n : occs[i] >= v}) >= n_skip

compute_ref_occ_threshold(occs, p) ==
    Max(p.u_floor,
        Min(p.u_ceil, compute_occ_cutoff_top_frac(occs, p.f_top_frac)))

\* A test that samples the rare seeds instead of the repetitive ones.
isRareSeed(ref_occ, ref_occ_thr) == ref_occ < ref_occ_thr

\* A test that finds no hash repetitive, so that no hit is sampled.
neverRepetitive(ref_occ, ref_occ_thr) == FALSE

\* Step 4.2: is the hash repetitive on the reference side?
isRepetitive(ref_occ, ref_occ_thr) == ref_occ > ref_occ_thr

\* collect_anchors: for every query hit that passes the filters, one anchor
\* per reference hit of the same hash, in the order of the sorted reference.
collect_anchors(ref_hits, qry_hits, params) ==
    LET hashes      == {ref_hits[i].hash : i \in 1..Len(ref_hits)}
        occOf(h)    == Cardinality({i \in 1..Len(ref_hits) : ref_hits[i].hash = h})
        sorted_hash ==
            [i \in 1..Cardinality(hashes) |->
                CHOOSE h \in hashes :
                    Cardinality({g \in hashes : g < h}) = i - 1]
        ref_occs    == [i \in 1..Len(sorted_hash) |-> occOf(sorted_hash[i])]
        ref_occ_thr == compute_ref_occ_threshold(ref_occs, params)
        qry_occ(h)  == Cardinality({i \in 1..Len(qry_hits) : qry_hits[i].hash = h})
        tooFrequent(h) ==
            /\ params.q_occ_frac[1] > 0
            /\ qry_occ(h) * params.q_occ_frac[2]
                 > params.q_occ_frac[1] * Len(qry_hits)
        sampledOut(qh) ==
            /\ isRepetitive(occOf(qh.hash), ref_occ_thr)
            /\ \/ params.sample_every_bp = 0
               \/ qh.pos % params.sample_every_bp # 0
        expand(qh) ==
            LET occ == SelectSeq(ref_hits, LAMBDA rh : rh.hash = qh.hash)
            IN  [i \in 1..Len(occ) |->
                    [hash |-> qh.hash, pos_ref |-> occ[i].pos, pos_qry |-> qh.pos]]
        anchorsFrom[j \in 1..(Len(qry_hits) + 1)] ==
            IF j > Len(qry_hits) THEN <<>>
            ELSE (IF qry_hits[j].hash \notin hashes \/ tooFrequent(qry_hits[j].hash)
                     \/ sampledOut(qry_hits[j])
                  THEN <<>> ELSE expand(qry_hits[j])) \o anchorsFrom[j + 1]
    IN  IF ref_hits = <<>> \/ qry_hits = <<>> THEN <<>> ELSE anchorsFrom[1]

\* Hit lists as extractMinimizer makes them: positions ascending.
HitLists ==
    {[i \in 1..Len(hs) |-> [hash |-> hs[i], pos |-> i - 1]] :
        hs \in SeqsUpTo({1, 2}, MaxHits)}

FilterParams ==
    [f_top_frac : {<<0, 1>>, <<1, 2>>}, u_floor : {0, 2}, u_ceil : {1, 3},
     q_occ_frac : {<<0, 1>>, <<1, 4>>, <<1, 1>>}, sample_every_bp : {0, 2}]

\* A second parameter set that differs from params in u_ceil or in q_occ_frac.
InitAnchor ==
    /\ pc = "input"
    /\ keep_first_length = FALSE
    /\ StreamIdle
    /\ \E r \in HitLists, q \in HitLists, p \in FilterParams :
          \E o \in {[p EXCEPT !.u_ceil = u] : u \in {1, 3}}
                    \cup {[p EXCEPT !.q_occ_frac = f] :
                            f \in {<<0, 1>>, <<1, 4>>, <<1, 1>>}} :
             fn_in = [ref_hits |-> r, qry_hits |-> q, params |-> p, other |-> o]
    /\ fn_out = <<>>

\* collect_anchors with each of the two parameter sets.
CallCollect ==
    /\ pc = "input"
    /\ fn_out' =
          [base |-> collect_anchors(fn_in.ref_hits, fn_in.qry_hits, fn_in.params),
           other |-> collect_anchors(fn_in.ref_hits, fn_in.qry_hits, fn_in.other)]
    /\ pc' = "collected"
    /\ UNCHANGED <<streamVars, fn_in>>

NextAnchor == CallCollect

SpecAnchor == InitAnchor /\ [][NextAnchor]_vars

\* C14 (as claimed): with a smaller u_ceil or a larger q_occ_frac, all else
\* equal, collect returns no more anchors than before.
C14_StricterNeverMore ==
    (/\ pc = "collected"
     /\ \/ fn_in.other.u_ceil < fn_in.params.u_ceil
        \/ fracGreater(fn_in.other.q_occ_frac, fn_in.params.q_occ_frac)) =>
        Len(fn_out.other) <= Len(fn_out.base)

\* C14 (amended): with a smaller u_ceil, or with a positive q_occ_frac that is
\* smaller than before or replaces a disabled one (q_occ_frac <= 0), all else
\* equal, collect returns no more anchors than before.
C14_StricterFilters ==
    (/\ pc = "collected"
     /\ \/ fn_in.other.u_ceil < fn_in.params.u_ceil
        \/ /\ fn_in.other.q_occ_frac[1] > 0
           /\ \/ fn_in.params.q_occ_frac[1] <= 0
              \/ fracGreater(fn_in.params.q_occ_frac, fn_in.other.q_occ_frac)) =>
        Len(fn_out.other) <= Len(fn_out.base)

\* A smaller u_ceil and, in another run, a smaller q_occ_frac removed
\* anchors; here the first.
C14_Witness ==
    /\ pc = "collected"
    /\ fn_in.other.u_ceil < fn_in.params.u_ceil
    /\ Len(fn_out.other) < Len(fn_out.base)
    /\ Len(fn_out.other) > 0

\* =========================================================================
\* TopKLongestSelector (specification SpecTopK), mash.cpp.  An Item is
\* [len, order]; heap_ is a sequence, heap_[0] of the code is heap[1] here.
\* =========================================================================
worseThan(a, b) ==
    IF a.len # b.len THEN a.len < b.len ELSE a.order > b.order

\* A comparison that prefers the later of two records of equal length.
betterOrLater(cand, worst) ==
    IF cand.len # worst.len THEN cand.len > worst.len
    ELSE cand.order > worst.order

betterThan(cand, worst) ==
    IF cand.len # worst.len THEN cand.len > worst.len
    ELSE cand.order < worst.order

RECURSIVE siftUp(_, _)
siftUp(heap, i) ==
    IF i = 0 THEN heap
    ELSE LET parent == (i - 1) \div 2
         IN  IF worseThan(heap[i + 1], heap[parent + 1])
             THEN siftUp([heap EXCEPT ![i + 1] = heap[parent + 1],
                                      ![parent + 1] = heap[i + 1]], parent)
             ELSE heap

RECURSIVE siftDown(_, _)
siftDown(heap, i) ==
    LET n     == Len(heap)
        left  == i * 2 + 1
        right == left + 1
        worst_child ==
            IF right < n /\ worseThan(heap[right + 1], heap[left + 1])
            THEN right ELSE left
    IN  IF left >= n THEN heap
        ELSE IF worseThan(heap[worst_child + 1], heap[i + 1])
        THEN siftDown([heap EXCEPT ![i + 1] = heap[worst_child + 1],
                                   ![worst_child + 1] = heap[i + 1]],
                      worst_child)
        ELSE heap

\* TopKLongestSelector::consider for a record of length len: the new
\* <<heap_, order_counter_>>.
consider(k, heap, order_counter, len) ==
    LET cand == [len |-> len, order |-> order_counter]
    IN  IF k = 0 THEN <<heap, order_counter>>
        ELSE IF Len(heap) < k
        THEN <<siftUp(Append(heap, cand), Len(heap)), order_counter + 1>>
        ELSE IF betterThan(cand, heap[1])
        THEN <<siftDown([heap EXCEPT ![1] = cand], 0), order_counter + 1>>
        ELSE <<heap, order_counter + 1>>

\* takeSortedDesc: the items by length descending, then order ascending.
takeSortedDesc(heap) ==
    LET items == Range(heap)
        before(x) == {y \in items : y.len > x.len
                                     \/ (y.len = x.len /\ y.order < x.order)}
    IN  [i \in 1..Len(heap) |->
            CHOOSE x \in items : Cardinality(before(x)) = i - 1]

\* A selector of capacity k_ = fn_in.k, nothing considered yet.  arrived
\* counts the calls of consider, seen lists what was considered since the last
\* extraction, each with its arrival number.
InitTopK ==
    /\ pc = "selecting"
    /\ keep_first_length = FALSE
    /\ StreamIdle
    /\ fn_in \in [k : 0..MaxK]
    /\ fn_out = [heap |-> <<>>, order_counter |-> 0, arrived |-> 0,
                 seen |-> <<>>, out |-> <<>>]

Consider ==
    /\ fn_out.arrived < MaxConsidered
    /\ \E len \in 0..MaxSeqLen :
          LET r == consider(fn_in.k, fn_out.heap, fn_out.order_counter, len)
          IN  fn_out' = [fn_out EXCEPT
                            !.heap = r[1], !.order_counter = r[2],
                            !.arrived = @ + 1,
                            !.seen = Append(IF pc = "taken" THEN <<>> ELSE @,
                                            [len |-> len, order |-> fn_out.arrived])]
    /\ pc' = "selecting"
    /\ UNCHANGED <<streamVars, fn_in>>

TakeSortedDesc ==
    /\ pc = "selecting"
    /\ fn_out' = [fn_out EXCEPT !.out = takeSortedDesc(fn_out.heap),
                                !.heap = <<>>]
    /\ pc' = "taken"
    /\ UNCHANGED <<streamVars, fn_in>>

NextTopK == Consider \/ TakeSortedDesc

SpecTopK == InitTopK /\ [][NextTopK]_vars

\* The records of seen that have fewer than k better ones, best first.
bestOf(seen, k) ==
    LET items == Range(seen)
        before(x) == {y \in items : y.len > x.len
                                     \/ (y.len = x.len /\ y.order < x.order)}
        n == Min(k, Len(seen))
    IN  [i \in 1..n |-> CHOOSE x \in items : Cardinality(before(x)) = i - 1]

\* C16: the selector never holds more than K records, what it holds are the
\* K best considered since the last extraction under (length descending,
\* arrival ascending), and extraction returns exactly these, best first.
C16_TopKBest ==
    /\ Len(fn_out.heap) <= fn_in.k
    /\ pc = "selecting" =>
          Range(fn_out.heap) = Range(bestOf(fn_out.seen, fn_in.k))
    /\ pc = "taken" =>
          /\ fn_out.out = bestOf(fn_out.seen, fn_in.k)
          /\ fn_out.heap = <<>>

\* Of three records of equal length a selector of capacity 2 returned the
\* first two, after a shorter one had been displaced.
C16_Witness ==
    /\ pc = "taken"
    /\ fn_in.k = 2
    /\ fn_out.seen = << [len |-> 0, order |-> 0], [len |-> 1, order |-> 1],
                        [len |-> 1, order |-> 2], [len |-> 1, order |-> 3] >>
    /\ fn_out.out = << [len |-> 1, order |-> 1], [len |-> 1, order |-> 2] >>

\* =========================================================================
\* Reference selection as a pure function (specification SpecSelect): the
\* linear scan of alignOneQueryToRef over arbitrary sketches
\* =========================================================================
\* Sketches over three hash values; at least one reference (alignQueryToRef
\* rejects an empty index).
InitSelect ==
    /\ pc = "input"
    /\ keep_first_length = FALSE
    /\ StreamIdle
    /\ \E qsk \in SUBSET {1, 2, 3} :
          \E sketches \in SeqsUpTo(SUBSET {1, 2, 3}, MaxRefs) \ {<<>>} :
             fn_in = [qsk |-> qsk, ref_sketch |-> sketches]
    /\ fn_out = <<>>

CallSelect ==
    /\ pc = "input"
    /\ fn_out' = bestRef(fn_in.qsk, fn_in.ref_sketch)
    /\ pc' = "selected"
    /\ UNCHANGED <<streamVars, fn_in>>

SpecSelect == InitSelect /\ [][CallSelect]_vars

\* C17: the selected reference has the largest Jaccard similarity to the query
\* sketch, and every reference before it has a strictly smaller one.
C17_ArgmaxLowestIndex ==
    pc = "selected" =>
        LET j(r) == jaccard(fn_in.qsk, fn_in.ref_sketch[r])
            best == j(fn_out)
        IN  /\ fn_out \in 1..Len(fn_in.ref_sketch)
            /\ \A r \in 1..Len(fn_in.ref_sketch) :
                  /\ j(r)[1] * best[2] <= best[1] * j(r)[2]
                  /\ r < fn_out => j(r)[1] * best[2] < best[1] * j(r)[2]

\* Three references, the last two tied for the maximum: the second is chosen.
C17_Witness ==
    /\ pc = "selected"
    /\ fn_in.qsk = {1, 2}
    /\ fn_in.ref_sketch = << {3}, {1}, {2} >>
    /\ fn_out = 2

\* =========================================================================
\* Minimizer extraction, one loop iteration per step (specification
\* SpecMinimizer): minimizer::extractMinimizer with its RingMinQueue
\* =========================================================================
\* Sequences with an invalid base: nt4 of "N" is 4.
InitMinimizer ==
    /\ pc = "call"
    /\ keep_first_length = FALSE
    /\ StreamIdle
    /\ \E seq \in SeqsUpTo({"A", "C", "G", "N"}, MaxMinLen) :
          \E k \in 1..kmer_size, w \in 1..window_size, nc \in BOOLEAN :
             fn_in = [seq |-> seq, k |-> k, w |-> w, non_canonical |-> nc]
    /\ fn_out = <<>>

\* extractMinimizer up to its loop: the early returns, win, the empty queue.
MinimizerEnter ==
    /\ pc = "call"
    /\ IF Len(fn_in.seq) < fn_in.k
       THEN /\ pc' = "returned"
            /\ fn_out' = [i |-> 0, st |-> minimizerStart(0)]
       ELSE /\ pc' = "loop"
            /\ fn_out' = [i |-> 0,
                          st |-> minimizerStart(
                                    minimizerWindow(Len(fn_in.seq), fn_in.k,
                                                    fn_in.w))]
    /\ UNCHANGED <<streamVars, fn_in>>

\* One iteration of the loop, or the return after the last one.
MinimizerIter ==
    /\ pc = "loop"
    /\ ~fn_out.st.q.oob
    /\ IF fn_out.i < Len(fn_in.seq)
       THEN /\ fn_out' =
                 [i |-> fn_out.i + 1,
                  st |-> minimizerStep(fn_out.st, fn_in.seq, fn_out.i, fn_in.k,
                                       fn_out.st.q.cap, fn_in.non_canonical)]
            /\ pc' = "loop"
       ELSE /\ fn_out' = fn_out
            /\ pc' = "returned"
    /\ UNCHANGED <<streamVars, fn_in>>

\* push accessed an element outside buf_: the behaviour is undefined from
\* here on.
MinimizerOutOfBounds ==
    /\ pc = "loop"
    /\ fn_out.st.q.oob
    /\ pc' = "ub"
    /\ UNCHANGED <<streamVars, fnVars>>

NextMinimizer == MinimizerEnter \/ MinimizerIter \/ MinimizerOutOfBounds

SpecMinimizer == InitMinimizer /\ [][NextMinimizer]_vars

\* The hash extractMinimizer gives the k-mer that starts at position p (from
\* 0) of seq, computed from the k-mer itself.
kmerHash(seq, p, k, non_canonical) ==
    LET fwd == kmerCode(seq, p + 1, k)
        RECURSIVE rc(_)
        rc(j) == IF j = k THEN 0
                 ELSE (3 - nt4(seq[p + 1 + j])) * (4 ^ j) + rc(j + 1)
    IN  splitmix64(IF non_canonical THEN fwd ELSE Min(fwd, rc(0))) \div (2 ^ 8)

\* C18 (as claimed): when the last win k-mer positions are all valid k-mers
\* and the iteration took its candidate from the queue front, that candidate
\* lies in the window, has the hash of its k-mer, and no k-mer of the window
\* has a smaller hash.
C18_FrontIsWindowMinimum ==
    (pc = "loop" /\ fn_out.i > 0 /\ fn_out.st.has_cur) =>
        LET k    == fn_in.k
            win  == fn_out.st.q.cap
            pos  == fn_out.i - k
            cand == fn_out.st.cur
            window == (pos + 1 - win)..pos
            full == \A p \in window : \A j \in 0..(k - 1) :
                        nt4(fn_in.seq[p + 1 + j]) < 4
        IN  full =>
              /\ cand.pos \in window
              /\ cand.h = kmerHash(fn_in.seq, cand.pos, k, fn_in.non_canonical)
              /\ \A p \in window :
                    cand.h <= kmerHash(fn_in.seq, p, k, fn_in.non_canonical)

\* =========================================================================
\* The thread pools (specifications SpecPool and SpecPoolFair): ThreadPool,
\* one queue, one mutex and one condition variable for all workers, and
\* ThreadPoolPerThread, a queue, a mutex and a condition variable per worker.
\* A producer thread calls enqueue, another thread calls wait_for_all once,
\* every task returns, and the owner destroys the pool at some moment when no
\* call of enqueue or wait_for_all is under way.
\* A section under a mutex is one step; a thread in a condition wait is
\* "blocked" until a notification (or a spurious wake-up) makes it "check".
\* =========================================================================
\* One queue for all workers, whatever the pool.
sharedQueue(kind, i) == 1

\* The queue (and mutex, and condition variable) worker i uses.
queueOf(kind, i) == IF kind = "ThreadPool" THEN 1 ELSE i

\* The pool after its constructor, the threads started and not yet run.
newPool(kind, num_threads) ==
    LET nq == queueOf(kind, num_threads)
    IN  [tasks    |-> [q \in 1..nq |-> <<>>],
         active   |-> [q \in 1..nq |-> 0],
         stop     |-> [q \in 1..nq |-> FALSE],
         dpc      |-> "alive",
         d_i      |-> 1,
         dest     |-> <<>>,
         drained  |-> FALSE,
         wpc      |-> [i \in 1..num_threads |-> "check"],
         wtask    |-> [i \in 1..num_threads |-> 0],
         epc      |-> "idle",
         etid     |-> 1,
         pushed   |-> 0,
         wtpc     |-> "out",
         wt_i     |-> 1,
         before   |-> {},
         slept    |-> FALSE,
         finished |-> {}]

\* The workers blocked on condition variable cv.
waitingWorkers(p, cv) ==
    {i \in DOMAIN p.wpc :
        p.wpc[i] = "blocked" /\ queueOf(fn_in.kind, i) = cv}

\* The thread in wait_for_all is blocked on condition variable cv.
waiterWaits(p, cv) == p.wtpc = "blocked" /\ p.wt_i = cv

\* notify_all on cv.
notify_all(p, cv) ==
    [p EXCEPT !.wpc = [i \in DOMAIN p.wpc |->
                          IF i \in waitingWorkers(p, cv) THEN "check"
                          ELSE p.wpc[i]],
              !.wtpc = IF waiterWaits(p, cv) THEN "check" ELSE @]

\* The outcomes of notify_one on cv: one of the blocked threads wakes, any of
\* them; nothing happens when none is blocked.
notify_one(p, cv) ==
    {[p EXCEPT !.wpc[i] = "check"] : i \in waitingWorkers(p, cv)}
    \cup (IF waiterWaits(p, cv) THEN {[p EXCEPT !.wtpc = "check"]} ELSE {})
    \cup (IF waitingWorkers(p, cv) = {} /\ ~waiterWaits(p, cv)
          THEN {p} ELSE {})

\* A predicate of wait_for_all that looks at the queue only.
queueEmpty(p, q) == p.tasks[q] = <<>>

\* A wait_for_all that returns at once.
waitSkipped(p, q) == TRUE

\* The predicate of wait_for_all for queue q.
allDone(p, q) == p.tasks[q] = <<>> /\ p.active[q] = 0

\* A worker that leaves its loop as soon as stop is set.
leavesOnStop(p, q) == p.stop[q]

\* The test that ends the loop of a worker: stop && tasks.empty().
leavesLoop(p, q) == p.stop[q] /\ p.tasks[q] = <<>>

\* One step of worker i: the section that waits for and takes a task or
\* leaves the loop, the task and the section after it, and
\* (ThreadPoolPerThread) the notify_all after that section.
Worker(i) ==
    /\ pc = "pool"
    /\ i \in DOMAIN fn_out.wpc
    /\ LET p == fn_out
           q == queueOf(fn_in.kind, i)
       IN  \/ /\ p.wpc[i] = "check"
              /\ fn_out' =
                   IF leavesLoop(p, q)
                   THEN [p EXCEPT !.wpc[i] = "exited"]
                   ELSE IF p.tasks[q] = <<>>
                   THEN [p EXCEPT !.wpc[i] = "blocked"]
                   ELSE [p EXCEPT !.wpc[i] = "run",
                                  !.drained = @ \/ p.stop[q],
                                  !.wtask[i] = Head(p.tasks[q]),
                                  !.tasks[q] = Tail(@),
                                  !.active[q] = @ + 1]
           \/ /\ p.wpc[i] = "run"
              /\ LET r == [p EXCEPT !.finished = @ \cup {p.wtask[i]},
                                    !.active[q] = @ - 1]
                 IN  fn_out' =
                       IF fn_in.kind = "ThreadPool"
                       THEN notify_all([r EXCEPT !.wpc[i] = "check"], q)
                       ELSE [r EXCEPT !.wpc[i] = "notify"]
           \/ /\ p.wpc[i] = "notify"
              /\ fn_out' = notify_all([p EXCEPT !.wpc[i] = "check"], q)
    /\ UNCHANGED <<streamVars, pc, fn_in>>

\* enqueue, two steps: the push under the mutex, then notify_one.
enqueue ==
    /\ pc = "pool"
    /\ LET p == fn_out
       IN  \/ /\ p.epc = "idle"
              /\ p.dpc = "alive"
              /\ p.pushed < MaxTasks
              /\ \E tid \in DOMAIN p.tasks :
                    fn_out' = [p EXCEPT !.tasks[tid] = Append(@, p.pushed + 1),
                                        !.dest = Append(@, tid),
                                        !.pushed = @ + 1,
                                        !.epc = "notify",
                                        !.etid = tid]
           \/ /\ p.epc = "notify"
              /\ fn_out' \in notify_one([p EXCEPT !.epc = "idle"], p.etid)
    /\ UNCHANGED <<streamVars, pc, fn_in>>

\* wait_for_all: the call, then one evaluation of the predicate under the
\* mutex of queue wt_i per step; before is the set of tasks pushed before the
\* call.
wait_for_all ==
    /\ pc = "pool"
    /\ LET p == fn_out
       IN  \/ /\ p.wtpc = "out"
              /\ p.dpc = "alive"
              /\ fn_out' = [p EXCEPT !.wtpc = "check", !.wt_i = 1,
                                     !.before = 1..p.pushed]
           \/ /\ p.wtpc = "check"
              /\ fn_out' =
                   IF ~allDone(p, p.wt_i)
                   THEN [p EXCEPT !.wtpc = "blocked", !.slept = TRUE]
                   ELSE IF p.wt_i < Len(p.tasks)
                   THEN [p EXCEPT !.wt_i = @ + 1]
                   ELSE [p EXCEPT !.wtpc = "returned"]
    /\ UNCHANGED <<streamVars, pc, fn_in>>

\* A condition wait may end without a notification.
SpuriousWakeup ==
    /\ pc = "pool"
    /\ \/ \E i \in DOMAIN fn_out.wpc :
             /\ fn_out.wpc[i] = "blocked"
             /\ fn_out' = [fn_out EXCEPT !.wpc[i] = "check"]
       \/ /\ fn_out.wtpc = "blocked"
          /\ fn_out' = [fn_out EXCEPT !.wtpc = "check"]
    /\ UNCHANGED <<streamVars, pc, fn_in>>

\* The destructor: stop set under the mutex and a notification, once
\* (ThreadPool, notify_all) or for every worker in turn (ThreadPoolPerThread,
\* notify_one); then the joins, which end when every worker has left its loop.
destroy ==
    /\ pc = "pool"
    /\ LET p == fn_out
       IN  \/ /\ p.dpc = "alive"
              /\ p.epc = "idle"
              /\ p.wtpc \in {"out", "returned"}
              /\ fn_out' = [p EXCEPT !.dpc = "stop", !.d_i = 1]
           \/ /\ p.dpc = "stop"
              /\ fn_out' = [p EXCEPT !.stop[p.d_i] = TRUE, !.dpc = "notify"]
           \/ /\ p.dpc = "notify"
              /\ LET r == [p EXCEPT !.dpc = IF p.d_i < Len(p.tasks)
                                            THEN "stop" ELSE "join",
                                    !.d_i = IF p.d_i < Len(p.tasks)
                                            THEN @ + 1 ELSE @]
                 IN  IF fn_in.kind = "ThreadPool"
                     THEN fn_out' = notify_all(r, p.d_i)
                     ELSE fn_out' \in notify_one(r, p.d_i)
           \/ /\ p.dpc = "join"
              /\ \A i \in DOMAIN p.wpc : p.wpc[i] = "exited"
              /\ fn_out' = [p EXCEPT !.dpc = "returned"]
    /\ UNCHANGED <<streamVars, pc, fn_in>>

InitPool ==
    /\ pc = "pool"
    /\ keep_first_length = FALSE
    /\ StreamIdle
    /\ \E kind \in {"ThreadPool", "ThreadPoolPerThread"}, n \in 1..NThreads :
          /\ fn_in = [kind |-> kind, num_threads |-> n]
          /\ fn_out = newPool(kind, n)

NextPool ==
    \/ \E i \in 1..NThreads : Worker(i)
    \/ enqueue
    \/ wait_for_all
    \/ destroy
    \/ SpuriousWakeup

SpecPool == InitPool /\ [][NextPool]_vars

\* Every thread that can take a step of the pool's code takes it: a worker
\* its next step, the producer the notify_one of an enqueue it began, the
\* waiter its next evaluation of the predicate, the owner the next step of a
\* destructor it entered.  Calls from outside and spurious wake-ups are not
\* forced.
SpecPoolFair ==
    /\ SpecPool
    /\ \A i \in 1..NThreads : WF_vars(Worker(i))
    /\ WF_vars(enqueue /\ fn_out.epc = "notify")
    /\ WF_vars(wait_for_all /\ fn_out.wtpc = "check")
    /\ WF_vars(destroy /\ fn_out.dpc # "alive")

\* C19: every task pushed by enqueue is eventually executed to its end, also
\* when a thread is in wait_for_all on the same condition variable.
C19_EnqueuedEventuallyRuns ==
    \A t \in 1..MaxTasks :
        (pc = "pool" /\ fn_out.pushed >= t) ~> (t \in fn_out.finished)

\* Every queue is empty and no task runs on any worker.
poolIdle(p) == \A q \in DOMAIN p.tasks : allDone(p, q)

\* C20 (as claimed): the step by which wait_for_all returns ends in a state
\* where every task pushed before the call has finished, every queue is
\* empty and no task is running.
C20_ReturnsWhenPoolIdle ==
    [][(fn_out.wtpc = "check" /\ fn_out'.wtpc = "returned") =>
          /\ fn_out'.before \subseteq fn_out'.finished
          /\ poolIdle(fn_out')]_vars

\* C20 (amended): the step by which wait_for_all returns ends in a state
\* where every task pushed before the call has finished; with the single
\* queue of ThreadPool that queue is empty and no task is running.
C20_ReturnsAfterEarlierTasks ==
    [][(fn_out.wtpc = "check" /\ fn_out'.wtpc = "returned") =>
          /\ fn_out'.before \subseteq fn_out'.finished
          /\ (fn_in.kind = "ThreadPool" => poolIdle(fn_out'))]_vars

\* wait_for_all has returned after it was blocked, the tasks pushed before
\* the call have finished, and a task pushed during the call is still queued.
C20_Witness ==
    /\ pc = "pool"
    /\ fn_out.wtpc = "returned"
    /\ fn_out.slept
    /\ fn_out.before # {}
    /\ fn_out.before \subseteq fn_out.finished
    /\ ~poolIdle(fn_out)

\* =========================================================================
\* Further properties of the projection (specification SpecCigar) and of the
\* ring deque of the minimizer extraction (specification SpecMinimizer)
\* =========================================================================
\* C29: an N or P unit of length len has the effect of a D unit of length
\* len: the projection of a query by a CIGAR with N or P units is the
\* projection by the same CIGAR with D in their place, and it stays inside
\* its strings.
C29_SkipActsAsDeletion ==
    (/\ pc = "padded"
     /\ \E i \in 1..Len(fn_in.cigar) : unitOp(fn_in.cigar[i]) \in {kOpN, kOpP}) =>
        LET asD == [i \in 1..Len(fn_in.cigar) |->
                       IF unitOp(fn_in.cigar[i]) \in {kOpN, kOpP}
                       THEN cigarToInt(kOpD, unitLen(fn_in.cigar[i]))
                       ELSE fn_in.cigar[i]]
        IN  /\ fn_out.kind # "ub"
            /\ fn_out = padQueryToRefByCigar(fn_in.query, asD)

\* C30: while extractMinimizer runs, the ring deque holds at most cap_
\* entries and no push has gone outside buf_ or onto an entry still in the
\* deque (which is what a push into a full deque does).
C30_DequeWithinCapacity ==
    pc \in {"loop", "returned", "ub"} =>
        /\ fn_out.st.q.size <= fn_out.st.q.cap
        /\ ~fn_out.st.q.oob

\* =========================================================================
\* Sparse sampling of repetitive seeds (specification SpecAnchor)
\* =========================================================================
\* C28: an anchor whose hash occurs more than ref_occ_thr times among the
\* reference hits has a query position that is a multiple of
\* sample_every_bp, and there is no such anchor when sample_every_bp is 0;
\* a query hit that is not sampled contributes no anchor at all, and a
\* sampled one an anchor for every reference occurrence of its hash.
C28_RepetitiveSeedsSampled ==
    pc = "collected" =>
        LET ref     == fn_in.ref_hits
            qry     == fn_in.qry_hits
            every   == fn_in.params.sample_every_bp
            occ(h)  == Cardinality({i \in 1..Len(ref) : ref[i].hash = h})
            hashes  == {ref[i].hash : i \in 1..Len(ref)}
            byRank  == [i \in 1..Cardinality(hashes) |->
                           CHOOSE h \in hashes :
                               Cardinality({g \in hashes : g < h}) = i - 1]
            thr     == compute_ref_occ_threshold(
                           [i \in 1..Len(byRank) |-> occ(byRank[i])],
                           fn_in.params)
            from(j) == {i \in 1..Len(fn_out.base) :
                           /\ fn_out.base[i].pos_qry = qry[j].pos
                           /\ fn_out.base[i].hash = qry[j].hash}
        IN  \A j \in 1..Len(qry) :
               occ(qry[j].hash) > thr =>
                  /\ from(j) # {} => (every # 0 /\ qry[j].pos % every = 0)
                  /\ Cardinality(from(j)) \in {0, occ(qry[j].hash)}

\* A repetitive hash: the query hit at position 1 gave no anchor, the hit of
\* the same hash at position 2 gave one anchor per reference occurrence.
C28_Witness ==
    /\ pc = "collected"
    /\ fn_in.params.sample_every_bp = 2
    /\ fn_in.params.u_ceil = 1
    /\ fn_in.params.u_floor = 0
    /\ fn_in.params.q_occ_frac = <<0, 1>>
    /\ Len(fn_in.ref_hits) = 2
    /\ fn_in.ref_hits[1].hash = fn_in.ref_hits[2].hash
    /\ Len(fn_in.qry_hits) = 3
    /\ \A j \in 1..3 : fn_in.qry_hits[j].hash = fn_in.ref_hits[1].hash
    /\ Len(fn_out.base) = 4
    /\ \A i \in 1..4 : fn_out.base[i].pos_qry \in {0, 2}

\* =========================================================================
\* The segments of globalAlignMM2, one call of append_segment per step
\* (specification SpecSegment).  The anchor coordinates that give the segment
\* end are any, also behind the cursors and beyond the sequences.  The
\* segment aligner returns the CIGAR of an alignment of the segment, or of
\* the segment with one side a character shorter (a CIGAR that does not
\* consume the segment).  seg records what the last call was given.
\* =========================================================================
InitSegment ==
    /\ pc = "segments"
    /\ keep_first_length = FALSE
    /\ StreamIdle
    /\ \E ref_len \in 0..MaxSeqLen, qry_len \in 0..MaxSeqLen :
          fn_in = [ref_len |-> ref_len, qry_len |-> qry_len]
    /\ fn_out = [result |-> <<>>, ref_pos |-> 0, qry_pos |-> 0,
                 seg |-> [ref_len |-> 0, qry_len |-> 0, mismatch |-> FALSE,
                          behind |-> FALSE]]

\* One call of append_segment(ref_pos, ref_end0, qry_pos, qry_end0, cfg).
AppendSegment ==
    /\ pc = "segments"
    /\ \E ref_end0 \in 0..(MaxSeqLen + 1), qry_end0 \in 0..(MaxSeqLen + 1) :
          LET st == [result |-> fn_out.result, ref_pos |-> fn_out.ref_pos,
                     qry_pos |-> fn_out.qry_pos]
              b  == segmentBounds(st, ref_end0, qry_end0,
                                  fn_in.ref_len, fn_in.qry_len)
              rl == b.ref_end - b.ref_start
              ql == b.qry_end - b.qry_start
          IN  \E short \in {<<0, 0>>, <<1, 0>>, <<0, 1>>} :
                 \E a \in alignments(Max(rl - short[1], 0),
                                     Max(ql - short[2], 0)) :
                    LET seg_cigar == cigar_get_CIGAR(a)
                        nx == appendSegmentCigar(st, b, seg_cigar)
                    IN  fn_out' =
                          [result |-> nx.result, ref_pos |-> nx.ref_pos,
                           qry_pos |-> nx.qry_pos,
                           seg |-> [ref_len |-> rl, qry_len |-> ql,
                                    mismatch |->
                                       \/ getRefLength(seg_cigar) # rl
                                       \/ getQueryLength(seg_cigar) # ql,
                                    behind |-> ref_end0 < fn_out.ref_pos]]
    /\ UNCHANGED <<streamVars, pc, fn_in>>

SpecSegment == InitSegment /\ [][AppendSegment]_vars

\* The operations of a CIGAR, one per column.
RECURSIVE unrolled(_)
unrolled(cigar) ==
    IF cigar = <<>> THEN <<>>
    ELSE [i \in 1..unitLen(Head(cigar)) |-> unitOp(Head(cigar))]
         \o unrolled(Tail(cigar))

\* C26: when the CIGAR returned for a segment does not consume the segment's
\* reference and query lengths, the operations accumulated before stay as
\* they were and are followed by |qry_seg| I and then |ref_seg| D operations
\* (adjacent units of one operation are merged), and each cursor advances by
\* the length of its side of the segment.
C26_FallbackForSegmentOnly ==
    [][(pc = "segments" /\ fn_out'.seg.mismatch) =>
          /\ unrolled(fn_out'.result) =
                unrolled(fn_out.result)
                \o [i \in 1..fn_out'.seg.qry_len |-> kOpI]
                \o [i \in 1..fn_out'.seg.ref_len |-> kOpD]
          /\ fn_out'.ref_pos = fn_out.ref_pos + fn_out'.seg.ref_len
          /\ fn_out'.qry_pos = fn_out.qry_pos + fn_out'.seg.qry_len]_vars

\* The fallback replaced a segment with both sides non-empty after an
\* earlier segment had left a CIGAR: the result ends with the forced I and D
\* units and has more before them.
C26_Witness ==
    /\ pc = "segments"
    /\ fn_out.seg.mismatch
    /\ fn_out.seg.ref_len > 0
    /\ fn_out.seg.qry_len > 0
    /\ fn_out.ref_pos > fn_out.seg.ref_len
    /\ Len(fn_out.result) > 2
    /\ unitOp(fn_out.result[Len(fn_out.result)]) = kOpD
    /\ unitOp(fn_out.result[Len(fn_out.result) - 1]) = kOpI

\* C27: after every segment the accumulated CIGAR consumes exactly ref_pos
\* reference and qry_pos query characters, the cursors are within the
\* sequences, and no call of append_segment moves a cursor back, wherever
\* the anchors point.
C27_CursorsTrackCigar ==
    /\ [](pc = "segments" =>
            /\ getRefLength(fn_out.result) = fn_out.ref_pos
            /\ getQueryLength(fn_out.result) = fn_out.qry_pos
            /\ fn_out.ref_pos \in 0..fn_in.ref_len
            /\ fn_out.qry_pos \in 0..fn_in.qry_len)
    /\ [][pc = "segments" =>
            /\ fn_out'.ref_pos >= fn_out.ref_pos
            /\ fn_out'.qry_pos >= fn_out.qry_pos]_vars

\* A segment whose reference end was behind the cursor: its reference side
\* was empty, its query side was not, and the cursors and the CIGAR agree at
\* the end of both sequences.
C27_Witness ==
    /\ pc = "segments"
    /\ fn_out.seg.behind
    /\ fn_out.seg.ref_len = 0
    /\ fn_out.seg.qry_len > 0
    /\ fn_out.ref_pos = fn_in.ref_len
    /\ fn_out.qry_pos = fn_in.qry_len
    /\ getRefLength(fn_out.result) = fn_in.ref_len

\* =========================================================================
\* RefAligner::alignOneQueryToRef(q, tid) of src/align/ref_aligner.cpp as a
\* pure function (specification SpecRecheck).  This RefAligner is given its
\* consensus as a string by the caller, empty when there is none, and names
\* it "consensus".
\* =========================================================================
\* Every record the call can write for q: to which writer, with which rname
\* and CIGAR.
alignOneQueryToRef_tid(q, refs, consensus, keep_first) ==
    LET qsk      == sketchFromSequence(q.seq, kmer_size, sketch_size)
        sketches == [r \in 1..Len(refs) |->
                        sketchFromSequence(refs[r].seq, kmer_size, sketch_size)]
        best_ref == refs[bestRef(qsk, sketches)]
        rechecks(cigar) ==
            IF keep_first
            THEN IF refs # <<>> THEN globalAlignWFA2(refs[1].seq, q.seq)
                 ELSE {cigar}
            ELSE IF consensus # <<>> THEN globalAlignWFA2(consensus, q.seq)
                 ELSE {cigar}
    IN  UNION {IF hasInsertion(cigar)
               THEN {[to |-> IF hasInsertion(recheck_cigar)
                             THEN "out_insertion" ELSE "out",
                      rname |-> IF keep_first THEN refs[1].id ELSE "consensus",
                      cigar |-> recheck_cigar]
                     : recheck_cigar \in rechecks(cigar)}
               ELSE {[to |-> "out", rname |-> best_ref.id, cigar |-> cigar]}
               : cigar \in globalAlignWFA2(best_ref.seq, q.seq)}

InitRecheck ==
    /\ pc = "input"
    /\ keep_first_length = FALSE
    /\ StreamIdle
    /\ \E seq \in Sequences, consensus \in Sequences, keep_first \in BOOLEAN :
          fn_in = [q |-> [id |-> "q", seq |-> seq], refs |-> RefFile,
                   consensus |-> consensus, keep_first |-> keep_first]
    /\ fn_out = <<>>

CallAlignOne ==
    /\ pc = "input"
    /\ fn_out' \in alignOneQueryToRef_tid(fn_in.q, fn_in.refs, fn_in.consensus,
                                          fn_in.keep_first)
    /\ pc' = "written"
    /\ UNCHANGED <<streamVars, fn_in>>

SpecRecheck == InitRecheck /\ [][CallAlignOne]_vars

\* C25: the CIGAR of the record written for a query consumes as many
\* reference characters as the sequence its rname names has (a reference by
\* its id, the consensus by "consensus") and as many query characters as the
\* query has.
C25_CigarMatchesRname ==
    pc = "written" =>
        LET named == IF fn_out.rname = "consensus" THEN fn_in.consensus
                     ELSE (CHOOSE r \in Range(fn_in.refs) :
                              r.id = fn_out.rname).seq
        IN  /\ getRefLength(fn_out.cigar) = Len(named)
            /\ getQueryLength(fn_out.cigar) = Len(fn_in.q.seq)

\* =========================================================================
\* Further properties of the thread pools (specifications SpecPool and
\* SpecPoolFair)
\* =========================================================================
\* C21: in ThreadPoolPerThread a task runs on the worker it was enqueued
\* for, and only when every task enqueued earlier for that worker has
\* finished: the tasks of a worker run on its thread, one at a time, in the
\* order of their enqueue.
C21_OwnWorkerInOrder ==
    (pc = "pool" /\ fn_in.kind = "ThreadPoolPerThread") =>
        \A i \in DOMAIN fn_out.wpc :
            fn_out.wpc[i] = "run" =>
                /\ fn_out.dest[fn_out.wtask[i]] = i
                /\ \A u \in 1..(fn_out.wtask[i] - 1) :
                      fn_out.dest[u] = i => u \in fn_out.finished

\* Two tasks were enqueued for worker 1 of two: the first has finished, the
\* second is running on worker 1.
C21_Witness ==
    /\ pc = "pool"
    /\ fn_in = [kind |-> "ThreadPoolPerThread", num_threads |-> 2]
    /\ fn_out.dest = <<1, 1>>
    /\ fn_out.finished = {1}
    /\ fn_out.wpc[1] = "run"
    /\ fn_out.wtask[1] = 2

\* C22: a worker leaves its loop only after stop was set and with its queue
\* empty, and the destructor returns only when every worker has left its
\* loop; every task pushed has then been executed.
C22_DestructorDrainsAndJoins ==
    pc = "pool" =>
        /\ \A i \in DOMAIN fn_out.wpc :
              fn_out.wpc[i] = "exited" =>
                  LET q == IF fn_in.kind = "ThreadPool" THEN 1 ELSE i
                  IN  fn_out.stop[q] /\ fn_out.tasks[q] = <<>>
        /\ fn_out.dpc = "returned" =>
              /\ \A i \in DOMAIN fn_out.wpc : fn_out.wpc[i] = "exited"
              /\ fn_out.finished = 1..fn_out.pushed

\* The destructor has returned; a task was taken from a queue after stop was
\* set, and every task pushed has been executed.
C22_Witness ==
    /\ pc = "pool"
    /\ fn_out.dpc = "returned"
    /\ fn_out.drained
    /\ fn_out.pushed = MaxTasks
    /\ fn_out.finished = 1..MaxTasks

\* =========================================================================
\* The viral driver (specification SpecViral): main.cpp, from the creation
\* of the pool and of the per-thread temporary files to the merged FASTA
\* =========================================================================
\* The state of the driver is the record fn_out; fn_in holds the thread
\* count and the number of input sequences, whose ids are 1..total.  Workers
\* and streams are numbered from 0 as in the code.  A row of a file is the
\* id of its record; 0 is the record of the reference and -1 an empty line.
\* A thread that waits on a condition variable is modelled by the guard of
\* the step that follows the wait.

\* A shifted assignment of the sequences of a batch to the workers.
tidShifted(i, numThreads) == (i + 1) % numThreads

\* int tid = i % numThreads;
tidOf(i, numThreads) == i % numThreads

\* The ids of the next batch: at most N sequences from position pos on.
read_batch_of_n_sequences_with_ids(total, pos, N) ==
    [k \in 1..(IF total - pos < N THEN total - pos ELSE N) |-> pos + k]

InitViral ==
    /\ pc = "viral"
    /\ keep_first_length = FALSE
    /\ StreamIdle
    /\ \E n \in 1..NThreads, total \in 0..NQueries :
          /\ fn_in = [numThreads |-> n, total |-> total]
          /\ fn_out = [mpc            |-> "read",
                       pos            |-> 0,
                       batch          |-> <<>>,
                       i              |-> 0,
                       tasks          |-> [w \in 0..(n - 1) |-> <<>>],
                       active         |-> [w \in 0..(n - 1) |-> 0],
                       run            |-> [w \in 0..(n - 1) |-> <<>>],
                       thread_outputs |-> [w \in 0..(n - 1) |-> <<>>],
                       open           |-> [w \in 0..(n - 1) |-> TRUE],
                       files          |-> [w \in 0..(n - 1) |-> <<>>],
                       w_i            |-> 0,
                       fasta_out      |-> <<>>,
                       failbit        |-> FALSE,
                       m_i            |-> 0]

\* One step of the main thread.
ViralMain ==
    /\ pc = "viral"
    /\ LET d == fn_out
           n == fn_in.numThreads
       IN
       \/ \* read_batch_of_n_sequences_with_ids; false ends the loop
          /\ d.mpc = "read"
          /\ LET batch == read_batch_of_n_sequences_with_ids(
                              fn_in.total, d.pos, n * BatchPerThread)
             IN  fn_out' =
                   IF batch = <<>>
                   THEN [d EXCEPT !.mpc = "wait", !.batch = <<>>, !.w_i = 0]
                   ELSE [d EXCEPT !.mpc = "enqueue", !.batch = batch,
                                  !.i = 0, !.pos = @ + Len(batch)]
       \/ \* pool.enqueue(tid, task of batch[i])
          /\ d.mpc = "enqueue"
          /\ LET tid == tidOf(d.i, n)
                 task == [seq_id |-> d.batch[d.i + 1], tid |-> tid]
             IN  fn_out' =
                   [d EXCEPT !.tasks[tid] = Append(@, task),
                             !.i = @ + 1,
                             !.mpc = IF d.i + 1 < Len(d.batch)
                                     THEN "enqueue" ELSE "read"]
       \/ \* pool.wait_for_all(): the workers one after the other
          /\ d.mpc = "wait"
          /\ allDone(d, d.w_i)
          /\ fn_out' = [d EXCEPT !.w_i = @ + 1,
                                 !.mpc = IF d.w_i + 1 < n
                                         THEN "wait" ELSE "close"]
       \/ \* for (auto& ofs : thread_outputs) ofs.close();
          /\ d.mpc = "close"
          /\ fn_out' = [d EXCEPT !.open = [w \in 0..(n - 1) |-> FALSE],
                                 !.files = [w \in 0..(n - 1) |->
                                               IF d.open[w]
                                               THEN d.thread_outputs[w]
                                               ELSE d.files[w]],
                                 !.mpc = "ref"]
       \/ \* the record of the reference
          /\ d.mpc = "ref"
          /\ fn_out' = [d EXCEPT !.fasta_out = <<0>>, !.m_i = 0,
                                 !.mpc = "merge"]
       \/ \* fasta_out << tmp_in.rdbuf(); fasta_out << "\n";
          \* an insertion of no character sets failbit, and a stream whose
          \* failbit is set writes nothing
          /\ d.mpc = "merge"
          /\ fn_out' =
               [d EXCEPT !.fasta_out =
                             IF d.failbit \/ d.files[d.m_i] = <<>>
                             THEN @ ELSE @ \o d.files[d.m_i] \o <<-1>>,
                         !.failbit = @ \/ d.files[d.m_i] = <<>>,
                         !.m_i = @ + 1,
                         !.mpc = IF d.m_i + 1 < n THEN "merge" ELSE "done"]
    /\ UNCHANGED <<pc, streamVars, fn_in>>

\* One step of the thread of worker w: it takes the front task of its queue,
\* or the task it took writes its row to thread_outputs[tid] and returns.
ViralWorker(w) ==
    /\ pc = "viral"
    /\ w \in DOMAIN fn_out.tasks
    /\ LET d == fn_out
       IN
       \/ /\ d.run[w] = <<>>
          /\ d.tasks[w] # <<>>
          /\ fn_out' = [d EXCEPT !.run[w] = <<Head(d.tasks[w])>>,
                                 !.tasks[w] = Tail(@),
                                 !.active[w] = @ + 1]
       \/ /\ d.run[w] # <<>>
          /\ LET task == d.run[w][1]
             IN  fn_out' =
                   [d EXCEPT !.thread_outputs[task.tid] =
                                 IF d.open[task.tid]
                                 THEN Append(@, task.seq_id) ELSE @,
                             !.run[w] = <<>>,
                             !.active[w] = @ - 1]
    /\ UNCHANGED <<pc, streamVars, fn_in>>

SpecViral ==
    InitViral /\ [][ViralMain \/ \E w \in 0..(NThreads - 1) : ViralWorker(w)]_vars

\* C23: when the driver is done, the merged FASTA without its empty lines
\* is the record of the reference followed by one record for each input
\* sequence and nothing else.
C23_MergedHasEveryRowOnce ==
    (pc = "viral" /\ fn_out.mpc = "done") =>
        LET rows == SelectSeq(fn_out.fasta_out, LAMBDA r : r # -1)
        IN  /\ Len(rows) = fn_in.total + 1
            /\ rows[1] = 0
            /\ {rows[k] : k \in 2..Len(rows)} = 1..fn_in.total

\* Two threads and one input sequence: the file of worker 1 is empty, its
\* insertion has set failbit, and the merged file holds both records.
C23_Witness ==
    /\ pc = "viral"
    /\ fn_out.mpc = "done"
    /\ fn_in = [numThreads |-> 2, total |-> 1]
    /\ fn_out.files[1] = <<>>
    /\ fn_out.failbit
    /\ fn_out.fasta_out = <<0, 1, -1>>

\* C24: a task runs on the worker whose number is its tid, so that stream
\* tid is written by the thread of worker tid only, and is open then; and
\* from the return of wait_for_all on, when the main thread closes and
\* reads the streams, every input sequence has been read and no task is
\* queued or running.
C24_StreamsNeverShared ==
    pc = "viral" =>
        /\ \A w \in DOMAIN fn_out.run :
              fn_out.run[w] # <<>> =>
                  /\ fn_out.run[w][1].tid = w
                  /\ fn_out.open[w]
        /\ fn_out.mpc \in {"close", "ref", "merge", "done"} =>
              /\ fn_out.pos = fn_in.total
              /\ \A w \in DOMAIN fn_out.run :
                    fn_out.run[w] = <<>> /\ fn_out.tasks[w] = <<>>

\* wait_for_all has returned after NQueries sequences in more than one
\* batch: both streams were written and are about to be closed.
C24_Witness ==
    /\ pc = "viral"
    /\ fn_out.mpc = "close"
    /\ fn_in = [numThreads |-> 2, total |-> NQueries]
    /\ fn_out.thread_outputs[0] # <<>>
    /\ fn_out.thread_outputs[1] # <<>>
    /\ Len(fn_out.thread_outputs[0]) + Len(fn_out.thread_outputs[1]) = NQueries

====
